---- MODULE Spec2Model ----
(***************************************************************************)
(* The order execution engine of the gate rollover bot, in its three       *)
(* implementations:                                                        *)
(*   "main"   src/main.py           RolloverBot + execute_rollover_strategy *)
(*   "bot"    src/bot.py            RollingStrategy.start_rolling_strategy  *)
(*   "gateio" src/gateio_client.py  TradingStrategy.execute_strategy        *)
(*                                                                         *)
(* Money.  A price is an exact decimal number of cents, kept as a record   *)
(* [w, f, s] that stands for (w + f/s) cents with 0 <= f < s and s a power *)
(* of 100: multiplying a 2-decimal price k times by (1 + p/100) yields     *)
(* 2+2k decimals, and the split keeps every intermediate value inside the  *)
(* range of the model checker's integers.  Margins are whole USDT,         *)
(* leverages integers.  Python's binary floating point (bot.py,            *)
(* gateio_client.py) is modelled by the exact decimal value, rounded       *)
(* half-up where the code calls round().                                   *)
(*                                                                         *)
(* A price written into a request or a result is a record [c, m]:          *)
(* c cents and m ten-thousandths of a cent (6 decimals of a USDT).         *)
(***************************************************************************)
EXTENDS Integers, Sequences, FiniteSets, TLC

\* ------------------------------------------------------------------ bounds
\* Largest rollover count explored (the wizard of main.py admits 1..10).
MaxRoll == 3

\* ------------------------------------------------------------ input sets
Impls == {"main", "bot", "gateio"}
\* entry prices typed by the user, in cents (0.01, 1.49, 100.00, 50000.00)
EntryPrices == {1, 149, 10000, 5000000}
\* last traded prices the exchange reports, in cents (1.49, 50000.00)
TickerPrices == {149, 5000000}
\* margins in USDT
Margins == {100}
\* leverages
Leverages == {10}
\* percentage steps typed by the user (telegram_bot.py)
Pcts == {2, 5}
\* quanto multipliers of a contract <<numerator, denominator>>: 1, 0.01
QuantoMultipliers == {<<1, 1>>, <<1, 100>>}

\* ------------------------------------------------------------- arithmetic
Max(a, b) == IF a >= b THEN a ELSE b

\* the price of c cents exactly
Cents(c) == [w |-> c, f |-> 0, s |-> 1]

\* x * (1 + p/100), exactly
MulPct(x, p) ==
    LET a  == x.w * (100 + p)
        n  == (a % 100) * x.s + x.f * (100 + p)
        s2 == x.s * 100
    IN  [w |-> (a \div 100) + (n \div s2), f |-> n % s2, s |-> s2]

\* a price emitted with 2 decimals / with 6 decimals
Px(c, m) == [c |-> c, m |-> m]
NoPrice == Px(-1, 0)
ZeroPrice == Px(0, 0)

\* Decimal.quantize(Decimal('0.01'), rounding=ROUND_DOWN)
Trunc2(x) == x.w

\* round(x, 2)
Round2(x) == IF 2 * x.f >= x.s THEN x.w + 1 ELSE x.w

\* round(x, 6): cents and ten-thousandths of a cent
Round6(x) ==
    LET d == x.s \div 10000
        g == IF x.s <= 10000
             THEN x.f * (10000 \div x.s)
             ELSE (x.f \div d) + (IF 2 * (x.f % d) >= d THEN 1 ELSE 0)
    IN  IF g >= 10000 THEN Px(x.w + 1, 0) ELSE Px(x.w, g)

\* strict order of emitted prices
PxLess(a, b) == a.c < b.c \/ (a.c = b.c /\ a.m < b.m)

\* ------------------------------------------------------------ calculators
\* Decimal('1.02') of main.py, as a percentage step
MainStepPct == 2
\* interval_percent: float = 2.0 of bot.py
BotIntervalPercent == 2

\* main.py RolloverBot.calculate_contract_size: margin in USDT, price in
\* cents; the except branch (division by zero) returns 0
calculate_contract_size(price, margin, leverage) ==
    IF price = 0 THEN 0
    ELSE Max(1, (margin * leverage * 100) \div price)

\* main.py line 257: the price the next level is computed from
rollover_next_price(rollover_price) == rollover_price

\* main.py RolloverBot.calculate_rollover_orders, the loop from level i on
RECURSIVE rollover_orders_from(_, _, _, _)
rollover_orders_from(current_price, size, i, roll_count) ==
    IF i > roll_count THEN <<>>
    ELSE LET rollover_price == MulPct(current_price, MainStepPct)
         IN  <<[rollover_number |-> i,
                price |-> Px(Trunc2(rollover_price), 0),
                contract_size |-> size]>>
             \o rollover_orders_from(rollover_next_price(rollover_price),
                                     size, i + 1, roll_count)

calculate_rollover_orders_short(entry_price, margin, leverage, roll_count) ==
    rollover_orders_from(Cents(entry_price),
                         calculate_contract_size(entry_price, margin, leverage),
                         1, roll_count - 1)

calculate_rollover_orders(entry_price, margin, leverage, roll_count) ==
    rollover_orders_from(Cents(entry_price),
                         calculate_contract_size(entry_price, margin, leverage),
                         1, roll_count)

\* floor(n / p) for an emitted price p > 0 of p.c + p.m/10000 cents
FloorDivPx(n, p) ==
    IF p.m = 0 THEN n \div p.c
    ELSE IF p.c < 200000 THEN (n * 10000) \div (p.c * 10000 + p.m)
    ELSE LET fits(q) == q * p.c + ((q * p.m + 9999) \div 10000) <= n
         IN  CHOOSE q \in (n \div (p.c + 1))..(n \div p.c) :
                 fits(q) /\ ~fits(q + 1)

\* bot.py RollingStrategy.calculate_position_size: int(cost * leverage / price)
bot_calculate_position_size(cost_usdt, leverage, price) ==
    FloorDivPx(cost_usdt * leverage * 100, price)

\* bot.py RollingStrategy.calculate_rolling_prices
RECURSIVE rolling_prices_from(_, _, _, _)
rolling_prices_from(current_price, i, rolling_count, interval_percent) ==
    IF i > rolling_count THEN <<>>
    ELSE LET next == MulPct(current_price, interval_percent)
         IN  <<Round6(next)>>
             \o rolling_prices_from(next, i + 1, rolling_count, interval_percent)

calculate_rolling_prices(entry_price, rolling_count, interval_percent) ==
    rolling_prices_from(Cents(entry_price), 1, rolling_count, interval_percent)

\* gateio_client.py GateIOClient.calculate_position_size:
\* int(margin * leverage / price / contract_size), mult = <<num, den>>
gateio_calculate_position_size(margin, leverage, price, mult) ==
    (margin * leverage * 100 * mult[2]) \div (price * mult[1])

\* gateio_client.py TradingStrategy.calculate_rollover_prices
RECURSIVE rollover_prices_from(_, _, _, _)
rollover_prices_from(current_price, i, rollover_times, percentage_increase) ==
    IF i > rollover_times THEN <<>>
    ELSE LET next == MulPct(current_price, percentage_increase)
         IN  <<Px(Round2(next), 0)>>
             \o rollover_prices_from(next, i + 1, rollover_times,
                                     percentage_increase)

calculate_rollover_prices_default(entry_price, rollover_times, percentage_increase) ==
    rollover_prices_from(Cents(entry_price), 1, rollover_times,
                         BotIntervalPercent)

calculate_rollover_prices(entry_price, rollover_times, percentage_increase) ==
    rollover_prices_from(Cents(entry_price), 1, rollover_times,
                         percentage_increase)

\* ------------------------------------------------------------------ state
VARIABLES
    impl,       \* which implementation runs
    params,     \* the collected parameters (user_data / state / session)
    pc,         \* position of the run
    ticker,     \* last price returned by the ticker call, cents (0: none)
    entry_used, \* price the position was sized from, cents (0: not yet)
    quanto,     \* contract multiplier the exchange reported (gateio), <<num, den>>
    size,       \* contract size of the entry order (-1: not computed yet)
    orders,     \* the ladder: <<[rollover_number, price, contract_size]>>
    idx,        \* next ladder level to place
    calls,      \* every HTTP call sent to the exchange, and every pause, in order
    report,     \* per-level outcomes recorded so far
    result,     \* what the run reports to its caller
    http,       \* one _request: its method, what the wire did, its outcome
    ui,         \* the Telegram front end: every user's wizard and runs
    xch         \* the exchange account and the runs of main.py that share it

vars == <<impl, params, pc, ticker, entry_used, quanto, size, orders, idx, calls,
          report, result, http, ui, xch>>

OrderTypes == {"market", "limit"}

\* one HTTP call: op is the endpoint, kind/level what the run was doing
Call(op, kind, level, sz, price, tif, trigger, ok) ==
    [op |-> op, kind |-> kind, level |-> level, size |-> sz, price |-> price,
     tif |-> tif, trigger |-> trigger, ok |-> ok]

Plain(op, kind, level, ok) ==
    Call(op, kind, level, 0, NoPrice, "", NoPrice, ok)

NoResult == [status |-> "none", error |-> "", ladder |-> <<>>]
Failed(error) == [status |-> "failed", error |-> error, ladder |-> <<>>]
Success(ladder) == [status |-> "success", error |-> "", ladder |-> ladder]

\* what the wire does with a request: a response with a status code and a
\* body that parses as JSON or not, a timeout, or another transport error
HttpStatuses == {200, 201, 204, 400, 401, 404, 429, 500, 503}
Transports ==
    [kind : {"response"}, status : HttpStatuses, json : BOOLEAN]
    \cup {[kind |-> "timeout", status |-> 0, json |-> FALSE],
          [kind |-> "error", status |-> 0, json |-> FALSE]}
HttpMethods == {"GET", "POST", "DELETE", "PUT"}

\* the endpoints the clients call
Endpoints == {"/futures/usdt/tickers", "/futures/usdt/orders"}

\* texts are sequences of characters; the values a caller puts in a query:
\* a contract name, two with a character that percent-encoding changes, a
\* status
ParamValues ==
    [contract |-> {<<"BTC", "_", "USDT">>, <<"BTC", "/", "USDT">>,
                   <<"BTC", "&", "_", "USDT">>},
     status   |-> {<<"open">>}]

\* the params dict of a request, as its items in the order the caller
\* inserted them (<<>>: None or {})
ParamDicts ==
    {<<>>}
    \cup {<<<<"contract", v>>>> : v \in ParamValues.contract}
    \cup {<<<<"contract", v>>, <<"status", w>>>> :
              v \in ParamValues.contract, w \in ParamValues.status}
    \cup {<<<<"status", w>>, <<"contract", v>>>> :
              v \in ParamValues.contract, w \in ParamValues.status}

\* the data dict of a request: None, {} or an order
RequestData == {"none", "empty", "order"}

\* two successive readings of time.time(): <<seconds, fraction>>
Clocks == {<<<<"1700000000", "25">>, <<"1700000001", "75">>>>}

\* the credentials of the client
ApiKey == "GATE_API_KEY"
ApiSecret == "GATE_API_SECRET"

\* nothing transmitted yet
NoWire == [query |-> <<>>, body |-> <<>>]

\* nothing signed yet
NotSigned ==
    [url_path |-> <<>>, query |-> <<>>, body |-> <<>>, payload |-> <<>>,
     headers |-> [KEY |-> "", Timestamp |-> <<>>, SIGN |-> <<>>]]

\* no _request under way
NoRequest ==
    [method |-> "", transport |-> [kind |-> "none", status |-> 0, json |-> FALSE],
     sent |-> 0, outcome |-> "none",
     endpoint |-> "", params |-> <<>>, data |-> "none",
     clock |-> <<<<"0", "0">>, <<"0", "0">>>>, signed |-> NotSigned,
     wire |-> NoWire]

\* ------------------------------------------------------- the front end
\* the Telegram users that write to the bot
Users == {"u1", "u2"}

\* a field of a dict: <<>> when the key is absent, <<v>> when it holds v
Absent == <<>>

\* what a wizard collects for one user (main.py user_data[user_id], bot.py
\* user_states[user_id], telegram_bot.py user_sessions[user_id])
EmptyData ==
    [symbol |-> Absent, leverage |-> Absent, margin |-> Absent,
     entry_price |-> Absent, roll_count |-> Absent, order_type |-> Absent,
     pct |-> Absent, orders |-> Absent]

\* no update handled yet
NoEvent ==
    [user |-> "", kind |-> "", done |-> FALSE, handed |-> Absent, calls |-> <<>>]

\* the front end before any update: no conversation, no session, no strategy
IdleUi ==
    [step    |-> [u \in Users |-> "none"],
     data    |-> [u \in Users |-> EmptyData],
     active  |-> [u \in Users |-> FALSE],
     buttons |-> [u \in Users |-> [order |-> FALSE, confirm |-> FALSE]],
     runs    |-> [u \in Users |-> 0],
     outcome |-> [u \in Users |-> "none"],
     event   |-> NoEvent]

\* the exchange account before any run: no leverage set for the contract,
\* no run of any user, no order received
IdleXch ==
    [leverage |-> 0,
     run      |-> [u \in Users |-> [pc |-> "none", leverage |-> 0, levels |-> 0,
                                    idx |-> 1]],
     received |-> {}]

\* the ticker call's outcomes: a price, an empty array, an error
TickerResponses ==
    [kind : {"ok"}, last : TickerPrices]
        \cup {[kind |-> "empty", last |-> 0], [kind |-> "error", last |-> 0]}

\* the parameters the wizard has collected when its last step is due
InitParams(i) ==
    IF i = "main"
    THEN [order_type : {"unset"}, entry_price : EntryPrices, margin : Margins,
          leverage : Leverages, roll_count : 1..MaxRoll, pct : {0}]
    ELSE [order_type : {"market"}, entry_price : {0}, margin : Margins,
          leverage : Leverages, roll_count : 1..MaxRoll, pct : {0}]
         \cup
         [order_type : {"limit"}, entry_price : EntryPrices, margin : Margins,
          leverage : Leverages, roll_count : 1..MaxRoll, pct : {0}]

Init ==
    /\ impl \in Impls
    /\ params \in InitParams(impl)
    /\ pc = "wizard"
    /\ ticker = 0
    /\ entry_used = 0
    /\ quanto = <<1, 1>>
    /\ size = -1
    /\ orders = <<>>
    /\ idx = 1
    /\ calls = <<>>
    /\ report = <<>>
    /\ result = NoResult
    /\ http = NoRequest
    /\ ui = IdleUi
    /\ xch = IdleXch

\* a run that returns: nothing else changes
Return(res) ==
    /\ pc' = "end"
    /\ result' = res

\* ---------------------------------------------------------------- main.py
\* order_type_received: the ladder is computed from the typed entry price
order_type_received ==
    /\ impl = "main" /\ pc = "wizard"
    /\ \E ot \in OrderTypes :
          params' = [params EXCEPT !.order_type = ot]
    /\ orders' = calculate_rollover_orders(params.entry_price, params.margin,
                                           params.leverage, params.roll_count)
    /\ pc' = "confirmation"
    /\ UNCHANGED <<xch, ui, http, impl, quanto, ticker, entry_used, size, idx, calls, report, result>>

\* confirmation_received
confirmation_received ==
    /\ impl = "main" /\ pc = "confirmation"
    /\ \E yes \in BOOLEAN :
          IF yes THEN pc' = "ticker" /\ result' = result
          ELSE Return([status |-> "cancelled", error |-> "", ladder |-> <<>>])
    /\ UNCHANGED <<xch, ui, http, impl, quanto, params, ticker, entry_used, size, orders, idx, calls,
                   report>>

\* execute_rollover_strategy lines 451-457: does the run go on after the
\* ticker call (ticker[0]['last'] is read inside the try)
\* the same with the failure swallowed
main_ticker_ok_swallowed(resp) == TRUE

main_ticker_ok(resp) == resp.kind = "ok"

main_get_ticker ==
    /\ impl = "main" /\ pc = "ticker"
    /\ \E resp \in TickerResponses :
          /\ calls' = Append(calls, Plain("tickers", "setup", 0,
                                          resp.kind # "error"))
          /\ ticker' = resp.last
          /\ IF main_ticker_ok(resp)
             THEN pc' = "leverage" /\ result' = result
             ELSE Return(Failed("price"))
    /\ UNCHANGED <<xch, ui, http, impl, quanto, params, entry_used, size, orders, idx, report>>

\* GateIOAPI.set_leverage: GET positions (its failure is swallowed), then
\* POST leverage
set_leverage_calls(kind, level, posOk, levOk) ==
    <<Plain("positions", kind, level, posOk),
      Plain("leverage", kind, level, levOk)>>

\* lines 459-466: does the run go on after set_leverage
\* the same with the failure swallowed
main_leverage_ok_swallowed(levOk) == TRUE

main_leverage_ok(levOk) == levOk

\* lines 459-473: set_leverage, then the size of the entry order
main_set_leverage ==
    /\ impl = "main" /\ pc = "leverage"
    /\ \E posOk, levOk \in BOOLEAN :
          /\ calls' = calls \o set_leverage_calls("setup", 0, posOk, levOk)
          /\ IF ~main_leverage_ok(levOk)
             THEN Return(Failed("leverage")) /\ UNCHANGED <<size, entry_used>>
             ELSE LET sz == calculate_contract_size(params.entry_price,
                                    params.margin, params.leverage)
                  IN  /\ size' = sz
                      /\ entry_used' = params.entry_price
                      /\ IF sz <= 0 THEN Return(Failed("size"))
                         ELSE pc' = "entry" /\ result' = result
    /\ UNCHANGED <<xch, ui, http, impl, quanto, params, ticker, orders, idx, report>>

\* GateIOAPI.place_order: the size sent is abs(size)
Abs(n) == IF n < 0 THEN -n ELSE n

\* RolloverBot.place_market_order / place_limit_order: the calls made
\* the same with a failed order call sent a second time
main_place_calls_retry(kind, level, sz, price, tif, posOk, levOk, ordOk) ==
    set_leverage_calls(kind, level, posOk, levOk)
    \o (IF levOk
        THEN <<Call("orders", kind, level, Abs(sz), price, tif, NoPrice, ordOk)>>
             \o (IF ordOk THEN <<>>
                 ELSE <<Call("orders", kind, level, Abs(sz), price, tif,
                             NoPrice, ordOk)>>)
        ELSE <<>>)

main_place_calls_unguarded(kind, level, sz, price, tif, posOk, levOk, ordOk) ==
    set_leverage_calls(kind, level, posOk, levOk)
    \o <<Call("orders", kind, level, Abs(sz), price, tif, NoPrice, ordOk)>>

main_place_calls(kind, level, sz, price, tif, posOk, levOk, ordOk) ==
    set_leverage_calls(kind, level, posOk, levOk)
    \o (IF levOk
        THEN <<Call("orders", kind, level, Abs(sz), price, tif, NoPrice, ordOk)>>
        ELSE <<>>)

\* RolloverBot.place_market_order / place_limit_order: the boolean returned
main_place_success(levOk, ordOk) == levOk /\ ordOk

\* lines 477-493: does the run go on after the entry order
\* the same with the return value ignored
main_entry_ok_ignored(success) == TRUE

main_entry_ok(success) == success

main_entry ==
    /\ impl = "main" /\ pc = "entry"
    /\ \E posOk, levOk, ordOk \in BOOLEAN :
          /\ calls' = calls \o
                (IF params.order_type = "market"
                 THEN main_place_calls("entry", 0, size, ZeroPrice, "ioc",
                                       posOk, levOk, ordOk)
                 ELSE main_place_calls("entry", 0, size,
                                       Px(params.entry_price, 0), "gtc",
                                       posOk, levOk, ordOk))
          /\ IF main_entry_ok(main_place_success(levOk, ordOk))
             THEN pc' = "ladder" /\ result' = result
             ELSE Return(Failed("entry"))
    /\ UNCHANGED <<xch, ui, http, impl, quanto, params, ticker, entry_used, size, orders, idx, report>>

\* line 499, for order in orders: the order of the i-th pass
\* the same with the stored ladder walked from its end
main_ladder_order_reversed(ladder, i) == ladder[Len(ladder) + 1 - i]

main_ladder_order(ladder, i) == ladder[i]

\* lines 498-523: one pass of the loop, and the final message after the last
main_ladder ==
    /\ impl = "main" /\ pc = "ladder" /\ idx <= Len(orders)
    /\ \E posOk, levOk, ordOk \in BOOLEAN :
          LET order == main_ladder_order(orders, idx)
              ok    == main_place_success(levOk, ordOk)
              rep   == Append(report,
                         [number |-> order.rollover_number,
                          price |-> order.price,
                          size |-> order.contract_size,
                          status |-> IF ok THEN "success" ELSE "failed",
                          order_id |-> 0])
          IN  /\ calls' = calls \o
                    main_place_calls("ladder", idx, order.contract_size,
                                     order.price, "gtc", posOk, levOk, ordOk)
              /\ report' = rep
              /\ idx' = idx + 1
              /\ IF idx = Len(orders) THEN Return(Success(rep))
                 ELSE pc' = pc /\ result' = result
    /\ UNCHANGED <<xch, ui, http, impl, quanto, params, ticker, entry_used, size, orders>>

\* ----------------------------------------------------------------- bot.py
\* TelegramBot.handle_callback, data = "confirm": the run starts
handle_callback_confirm ==
    /\ impl = "bot" /\ pc = "wizard"
    /\ pc' = "ticker"
    /\ UNCHANGED <<xch, ui, http, impl, quanto, params, ticker, entry_used, size, orders, idx, calls,
                   report, result>>

\* lines 166-167: get_ticker returns {} for an empty array, and
\* ticker["last"] then raises
bot_ticker_ok(resp) == resp.kind = "ok"

bot_get_ticker ==
    /\ impl = "bot" /\ pc = "ticker"
    /\ \E resp \in TickerResponses :
          /\ calls' = Append(calls, Plain("tickers", "setup", 0,
                                          resp.kind # "error"))
          /\ ticker' = resp.last
          /\ IF bot_ticker_ok(resp)
             THEN pc' = "entry" /\ result' = result
             ELSE Return(Failed("price"))
    /\ UNCHANGED <<xch, ui, http, impl, quanto, params, entry_used, size, orders, idx, report>>

\* the ladder of lines 185-190: prices from the entry price at the default
\* interval, one size computed from the first ladder price
bot_ladder_orders_resized(actual_entry_price, cost_usdt, leverage, rolling_count) ==
    LET rolling_prices == calculate_rolling_prices(actual_entry_price,
                              rolling_count, BotIntervalPercent)
    IN  [i \in 1..rolling_count |->
            [rollover_number |-> i, price |-> rolling_prices[i],
             contract_size |-> bot_calculate_position_size(cost_usdt,
                                   leverage, rolling_prices[i])]]

bot_ladder_orders(actual_entry_price, cost_usdt, leverage, rolling_count) ==
    LET rolling_prices == calculate_rolling_prices(actual_entry_price,
                              rolling_count, BotIntervalPercent)
        rolling_size   == bot_calculate_position_size(cost_usdt, leverage,
                              rolling_prices[1])
    IN  [i \in 1..rolling_count |->
            [rollover_number |-> i, price |-> rolling_prices[i],
             contract_size |-> rolling_size]]

\* lines 169-183: does the run go on after the entry order call
bot_entry_ok(ordOk) == ordOk

\* lines 169-190: the entry order, then the ladder
bot_entry ==
    /\ impl = "bot" /\ pc = "entry"
    /\ IF params.order_type = "limit" /\ params.entry_price = 0
       THEN /\ Return(Failed("entry price"))
            /\ UNCHANGED <<entry_used, size, orders, calls>>
       ELSE \E ordOk \in BOOLEAN :
            LET price == IF params.order_type = "market" THEN ticker
                         ELSE params.entry_price
                sz    == bot_calculate_position_size(params.margin,
                             params.leverage, Px(price, 0))
            IN  /\ entry_used' = price
                /\ size' = sz
                /\ calls' = Append(calls,
                      IF params.order_type = "market"
                      THEN Call("orders", "entry", 0, sz, NoPrice, "ioc",
                                NoPrice, ordOk)
                      ELSE Call("orders", "entry", 0, sz, Px(price, 0), "gtc",
                                NoPrice, ordOk))
                /\ IF bot_entry_ok(ordOk)
                   THEN /\ orders' = bot_ladder_orders(price, params.margin,
                                         params.leverage, params.roll_count)
                        /\ pc' = "ladder" /\ result' = result
                   ELSE Return(Failed("entry")) /\ orders' = orders
    /\ UNCHANGED <<xch, ui, http, impl, quanto, params, ticker, idx, report>>

\* line 203: asyncio.sleep(0.1) stands in the try block after the order call,
\* so it is reached only when the call succeeded
bot_pause(level, ordOk) ==
    IF ordOk THEN <<Plain("sleep", "pause", level, TRUE)>> ELSE <<>>

\* lines 192-236: one pass of the loop, and the return after the last
bot_ladder ==
    /\ impl = "bot" /\ pc = "ladder" /\ idx <= Len(orders)
    /\ \E ordOk \in BOOLEAN :
          LET order == orders[idx]
              rep   == Append(report,
                         [number |-> idx,
                          price |-> order.price,
                          size |-> order.contract_size,
                          status |-> IF ordOk THEN "pending" ELSE "failed",
                          order_id |-> IF ordOk THEN Len(calls) + 1 ELSE 0])
          IN  /\ calls' = Append(calls,
                    Call("orders", "ladder", idx, order.contract_size,
                         order.price, "gtc", NoPrice, ordOk))
                    \o bot_pause(idx, ordOk)
              /\ report' = rep
              /\ idx' = idx + 1
              /\ IF idx = Len(orders) THEN Return(Success(rep))
                 ELSE pc' = pc /\ result' = result
    /\ UNCHANGED <<xch, ui, http, impl, quanto, params, ticker, entry_used, size, orders>>

\* ----------------------------------------- telegram_bot.py, gateio_client.py
\* TradingBot.handle_message, step percentage_increase: execute_strategy starts
percentage_increase_received ==
    /\ impl = "gateio" /\ pc = "wizard"
    /\ \E p \in Pcts : params' = [params EXCEPT !.pct = p]
    /\ pc' = "ticker"
    /\ UNCHANGED <<xch, ui, http, impl, quanto, ticker, entry_used, size, orders, idx, calls, report,
                   result>>

\* lines 194-196: get_ticker_price returns None for no tickers
gateio_ticker_ok(resp) == resp.kind = "ok" /\ resp.last # 0

gateio_get_ticker ==
    /\ impl = "gateio" /\ pc = "ticker"
    /\ \E resp \in TickerResponses :
          /\ calls' = Append(calls, Plain("tickers", "setup", 0,
                                          resp.kind # "error"))
          /\ ticker' = resp.last
          /\ IF gateio_ticker_ok(resp)
             THEN pc' = "leverage" /\ result' = result
             ELSE Return(Failed("price"))
    /\ UNCHANGED <<xch, ui, http, impl, quanto, params, entry_used, size, orders, idx, report>>

\* lines 198-199: set_leverage raises on failure, caught at line 244
gateio_leverage_ok(levOk) == levOk

gateio_set_leverage ==
    /\ impl = "gateio" /\ pc = "leverage"
    /\ \E levOk \in BOOLEAN :
          /\ calls' = Append(calls, Plain("leverage", "setup", 0, levOk))
          /\ IF gateio_leverage_ok(levOk)
             THEN pc' = "contract" /\ result' = result
             ELSE Return(Failed("leverage"))
    /\ UNCHANGED <<xch, ui, http, impl, quanto, params, ticker, entry_used, size, orders, idx, report>>

\* lines 201-208: the entry price, the contract lookup, the position size
gateio_position_size ==
    /\ impl = "gateio" /\ pc = "contract"
    /\ LET price == IF params.order_type = "market" THEN ticker
                    ELSE params.entry_price
       IN  /\ entry_used' = price
           /\ \/ /\ calls' = Append(calls, Plain("contract", "setup", 0, FALSE))
                 /\ Return(Failed("contract"))
                 /\ size' = size /\ quanto' = quanto
              \/ \E mult \in QuantoMultipliers :
                    LET sz == gateio_calculate_position_size(params.margin,
                                  params.leverage, price, mult)
                    IN  /\ calls' = Append(calls,
                                        Plain("contract", "setup", 0, TRUE))
                        /\ quanto' = mult
                        /\ size' = sz
                        /\ IF sz <= 0 THEN Return(Failed("size"))
                           ELSE pc' = "entry" /\ result' = result
    /\ UNCHANGED <<xch, ui, http, impl, params, ticker, orders, idx, report>>

\* the ladder of lines 219-235: the prices, each with the position size
gateio_ladder_orders(entry_price, position_size, rollover_times, pct) ==
    LET rollover_prices == calculate_rollover_prices(entry_price,
                               rollover_times, pct)
    IN  [i \in 1..rollover_times |->
            [rollover_number |-> i, price |-> rollover_prices[i],
             contract_size |-> position_size]]

\* lines 210-216: does the run go on after the entry order call
gateio_entry_ok(ordOk) == ordOk

\* lines 210-223: the entry order, then the ladder prices
gateio_entry ==
    /\ impl = "gateio" /\ pc = "entry"
    /\ IF params.order_type = "limit" /\ params.entry_price = 0
       THEN /\ Return(Failed("entry price"))
            /\ UNCHANGED <<orders, calls>>
       ELSE \E ordOk \in BOOLEAN :
            /\ calls' = Append(calls,
                  IF params.order_type = "market"
                  THEN Call("orders", "entry", 0, size, ZeroPrice, "ioc",
                            NoPrice, ordOk)
                  ELSE Call("orders", "entry", 0, size,
                            Px(params.entry_price, 0), "gtc", NoPrice, ordOk))
            /\ IF gateio_entry_ok(ordOk)
               THEN /\ orders' = gateio_ladder_orders(entry_used, size,
                                     params.roll_count, params.pct)
                    /\ pc' = "ladder" /\ result' = result
               ELSE Return(Failed("entry")) /\ orders' = orders
    /\ UNCHANGED <<xch, ui, http, impl, quanto, params, ticker, entry_used, size, idx, report>>

\* lines 227-244: does the loop go on after a conditional order call
\* (place_conditional_order raises on failure; the only handler is line 244)
gateio_ladder_continues(ordOk) == ordOk

\* GateIOClient.place_conditional_order: the order sent, price '0', ioc,
\* with the trigger price as stop_trigger
\* the same without the stop_trigger
place_conditional_order_untriggered(level, sz, trigger_price, ordOk) ==
    Call("orders", "ladder", level, sz, ZeroPrice, "ioc", NoPrice, ordOk)

place_conditional_order(level, sz, trigger_price, ordOk) ==
    Call("orders", "ladder", level, sz, ZeroPrice, "ioc", trigger_price, ordOk)

\* lines 226-245: one pass of the loop, and the return after the last
gateio_ladder ==
    /\ impl = "gateio" /\ pc = "ladder" /\ idx <= Len(orders)
    /\ \E ordOk \in BOOLEAN :
          LET order == orders[idx]
              rep   == IF ordOk
                       THEN Append(report,
                              [number |-> idx,
                               price |-> order.price,
                               size |-> order.contract_size,
                               status |-> "created",
                               order_id |-> Len(calls) + 1])
                       ELSE report
          IN  /\ calls' = Append(calls,
                    place_conditional_order(idx, order.contract_size,
                                            order.price, ordOk))
              /\ report' = rep
              /\ idx' = idx + 1
              /\ IF ~gateio_ladder_continues(ordOk)
                 THEN Return(Failed("ladder"))
                 ELSE IF idx = Len(orders) THEN Return(Success(rep))
                 ELSE pc' = pc /\ result' = result
    /\ UNCHANGED <<xch, ui, http, impl, quanto, params, ticker, entry_used, size, orders>>


Next ==
    \/ order_type_received
    \/ confirmation_received
    \/ main_get_ticker
    \/ main_set_leverage
    \/ main_entry
    \/ main_ladder
    \/ handle_callback_confirm
    \/ bot_get_ticker
    \/ bot_entry
    \/ bot_ladder
    \/ percentage_increase_received
    \/ gateio_get_ticker
    \/ gateio_set_leverage
    \/ gateio_position_size
    \/ gateio_entry
    \/ gateio_ladder

Spec == Init /\ [][Next]_vars

\* a run is straight-line code around its exchange calls: when each call
\* returns or fails, the run takes its next step
SpecLive == Init /\ [][Next]_vars /\ WF_vars(Next)

\* ------------------------------------------------------------- _request
\* main.py GateIOAPI._request, lines 95-126: what the caller gets
\* the same with only the 4xx and 5xx statuses treated as errors
main_request_outcome_lenient(method, t) ==
    IF method \notin {"GET", "POST", "DELETE"}
    THEN [sent |-> 0, outcome |-> "error"]
    ELSE IF t.kind # "response" THEN [sent |-> 1, outcome |-> "error"]
    ELSE IF t.status >= 400 THEN [sent |-> 1, outcome |-> "error"]
    ELSE IF ~t.json THEN [sent |-> 1, outcome |-> "error"]
    ELSE [sent |-> 1, outcome |-> "value"]

main_request_outcome(method, t) ==
    IF method \notin {"GET", "POST", "DELETE"}
    THEN [sent |-> 0, outcome |-> "error"]           \* ValueError, line 108
    ELSE IF t.kind = "timeout"
    THEN [sent |-> 1, outcome |-> "error"]           \* line 123
    ELSE IF t.kind = "error"
    THEN [sent |-> 1, outcome |-> "error"]           \* line 125
    ELSE IF t.status # 200
    THEN [sent |-> 1, outcome |-> "error"]           \* lines 113-120
    ELSE IF ~t.json
    THEN [sent |-> 1, outcome |-> "error"]           \* response.json() raises
    ELSE [sent |-> 1, outcome |-> "value"]           \* line 122

\* bot.py GateAPI._request, lines 77-93: the body is parsed before the
\* status is looked at, and every method is sent
bot_request_outcome(method, t) ==
    IF t.kind # "response" THEN [sent |-> 1, outcome |-> "error"]
    ELSE IF ~t.json THEN [sent |-> 1, outcome |-> "error"]
    ELSE IF t.status # 200 THEN [sent |-> 1, outcome |-> "error"]
    ELSE [sent |-> 1, outcome |-> "value"]

\* --------------------------------------------------------------- signing
\* hashlib.sha512(bytes).hexdigest() and hmac.new(key, msg, sha512).hexdigest()
\* as injective functions of what they digest
Sha512(bytes) == <<"sha512", bytes>>
HmacSha512(key, msg) == <<"hmac-sha512", key, msg>>

\* json.dumps(data, separators=(',', ':')); None and {} are falsy: body = ""
json_dumps_compact(data) ==
    IF data \in {"none", "empty"} THEN <<>>
    ELSE <<[doc |-> data, separators |-> "compact"]>>

\* sorted(params.items()): the items in lexicographic order of their keys
KeysInOrder == <<"contract", "status">>
KeyRank(k) == CHOOSE i \in 1..Len(KeysInOrder) : KeysInOrder[i] = k
Items(items) == {items[i] : i \in 1..Len(items)}
sorted_items(items) ==
    CHOOSE s \in [1..Len(items) -> Items(items)] :
        /\ Items(s) = Items(items)
        /\ \A i, j \in 1..Len(items) : i < j => KeyRank(s[i][1]) < KeyRank(s[j][1])

\* urllib.parse.quote_plus: "/" becomes "%2F", "&" becomes "%26", letters,
\* digits and "_" stay
quote_plus(text) ==
    [i \in 1..Len(text) |-> IF text[i] = "/" THEN "%2F"
                            ELSE IF text[i] = "&" THEN "%26"
                            ELSE text[i]]

\* main.py line 78, urllib.parse.urlencode(sorted_params)
RECURSIVE urlencode(_)
urlencode(items) ==
    IF items = <<>> THEN <<>>
    ELSE quote_plus(<<items[1][1]>>) \o <<"=">> \o quote_plus(items[1][2])
         \o (IF Len(items) = 1 THEN <<>> ELSE <<"&">> \o urlencode(Tail(items)))

\* bot.py line 61, "&".join(f"{k}={v}" ...): nothing is encoded
RECURSIVE join_raw(_)
join_raw(items) ==
    IF items = <<>> THEN <<>>
    ELSE <<items[1][1]>> \o <<"=">> \o items[1][2]
         \o (IF Len(items) = 1 THEN <<>> ELSE <<"&">> \o join_raw(Tail(items)))

\* main.py lines 73-78: the query string that is signed
main_query_string(items) == urlencode(sorted_items(items))

\* bot.py lines 59-61: the query string that is signed
bot_query(items) == join_raw(sorted_items(items))

\* the five fields joined by newlines
SignatureString(method, url_path, query_string, hashed_payload, timestamp) ==
    <<method, "\n", url_path, "\n", query_string, "\n", hashed_payload, "\n",
      timestamp>>

\* main.py GateIOAPI._sign_request, lines 43-67; timestamp = str(time.time())
\* the same with the clock read again for the Timestamp header
main_sign_request_reclocked(method, url_path, query_string, body, clock) ==
    LET timestamp == clock[1]
        hashed_payload == IF body # <<>> THEN Sha512(body) ELSE Sha512(<<>>)
        signature_string == SignatureString(method, url_path, query_string,
                                            hashed_payload, timestamp)
    IN  [payload |-> signature_string,
         headers |-> [KEY |-> ApiKey, Timestamp |-> clock[2],
                      SIGN |-> HmacSha512(ApiSecret, signature_string)]]

main_sign_request(method, url_path, query_string, body, clock) ==
    LET timestamp == clock[1]
        hashed_payload == IF body # <<>> THEN Sha512(body) ELSE Sha512(<<>>)
        signature_string == SignatureString(method, url_path, query_string,
                                            hashed_payload, timestamp)
    IN  [payload |-> signature_string,
         headers |-> [KEY |-> ApiKey, Timestamp |-> timestamp,
                      SIGN |-> HmacSha512(ApiSecret, signature_string)]]

\* bot.py GateIOAPI._generate_signature and the headers of _request, lines
\* 42-75; timestamp = str(int(time.time()))
bot_generate_signature(method, uri, query, body, clock) ==
    LET timestamp == <<clock[1][1]>>
        message == SignatureString(method, uri, query, Sha512(body), timestamp)
    IN  [payload |-> message,
         headers |-> [KEY |-> ApiKey, Timestamp |-> timestamp,
                      SIGN |-> HmacSha512(ApiSecret, message)]]

\* main.py _request lines 71-86: what is signed for a request
main_signed(req) ==
    LET query_string == main_query_string(req.params)
        body == json_dumps_compact(req.data)
        h == main_sign_request(req.method, <<req.endpoint>>, query_string,
                               body, req.clock)
    IN  [url_path |-> <<req.endpoint>>, query |-> query_string, body |-> body,
         payload |-> h.payload, headers |-> h.headers]

\* bot.py _request lines 56-75: what is signed for a request
bot_signed(req) ==
    LET uri == <<"/api/v4", req.endpoint>>
        query == bot_query(req.params)
        body == json_dumps_compact(req.data)
        h == bot_generate_signature(req.method, uri, query, body, req.clock)
    IN  [url_path |-> uri, query |-> query, body |-> body,
         payload |-> h.payload, headers |-> h.headers]

\* main.py _request lines 93-108: what goes on the wire; GET and DELETE use
\* full_url and carry no body, POST uses url without the query string and
\* carries body, any other method raises before anything is sent
main_wire(req) ==
    IF req.method \in {"GET", "DELETE"}
    THEN [query |-> main_query_string(req.params), body |-> <<>>]
    ELSE IF req.method = "POST"
    THEN [query |-> <<>>, body |-> json_dumps_compact(req.data)]
    ELSE NoWire

\* what aiohttp makes of params=params: the items in the dict's own order,
\* "&" in a value becomes "%26", "/" stays
RECURSIVE aiohttp_query(_)
aiohttp_query(items) ==
    IF items = <<>> THEN <<>>
    ELSE <<items[1][1]>> \o <<"=">>
         \o [i \in 1..Len(items[1][2]) |->
                IF items[1][2][i] = "&" THEN "%26" ELSE items[1][2][i]]
         \o (IF Len(items) = 1 THEN <<>>
             ELSE <<"&">> \o aiohttp_query(Tail(items)))

\* what aiohttp makes of json=data: json.dumps(data) with the default
\* separators, for every data but None
aiohttp_json(data) ==
    IF data = "none" THEN <<>>
    ELSE <<[doc |-> data, separators |-> "default"]>>

\* bot.py _request lines 77-83: what goes on the wire; session.get carries
\* no body, session.request carries json=data
bot_wire(req) ==
    [query |-> aiohttp_query(req.params),
     body  |-> IF req.method = "GET" THEN <<>> ELSE aiohttp_json(req.data)]

\* no wizard has run
NoParams ==
    [order_type |-> "unset", entry_price |-> 0, margin |-> 0, leverage |-> 0,
     roll_count |-> 0, pct |-> 0]

\* a client about to send one request
InitRequest ==
    /\ impl \in {"main", "bot"}
    /\ params = NoParams
    /\ pc = "request"
    /\ ticker = 0
    /\ entry_used = 0
    /\ quanto = <<1, 1>>
    /\ size = -1
    /\ orders = <<>>
    /\ idx = 1
    /\ calls = <<>>
    /\ report = <<>>
    /\ result = NoResult
    /\ ui = IdleUi
    /\ xch = IdleXch
    /\ http \in [method : HttpMethods, transport : Transports, sent : {0},
                 outcome : {"none"}, endpoint : Endpoints,
                 params : ParamDicts, data : RequestData, clock : Clocks,
                 signed : {NotSigned}, wire : {NoWire}]

main_request ==
    /\ impl = "main" /\ pc = "request"
    /\ LET r == main_request_outcome(http.method, http.transport)
       IN  http' = [http EXCEPT !.sent = r.sent, !.outcome = r.outcome,
                                !.signed = main_signed(http),
                                !.wire = main_wire(http)]
    /\ pc' = "responded"
    /\ UNCHANGED <<xch, ui, impl, params, ticker, entry_used, quanto, size, orders,
                   idx, calls, report, result>>

bot_request ==
    /\ impl = "bot" /\ pc = "request"
    /\ LET r == bot_request_outcome(http.method, http.transport)
       IN  http' = [http EXCEPT !.sent = r.sent, !.outcome = r.outcome,
                                !.signed = bot_signed(http),
                                !.wire = bot_wire(http)]
    /\ pc' = "responded"
    /\ UNCHANGED <<xch, ui, impl, params, ticker, entry_used, quanto, size, orders,
                   idx, calls, report, result>>

NextRequest ==
    \/ main_request
    \/ bot_request

SpecRequest == InitRequest /\ [][NextRequest]_vars

\* ============================================================ the wizards
\* texts a user types: what int() and float() make of each (Absent: the
\* conversion raises ValueError); float values are whole numbers of USDT
NumberTexts ==
    {[s |-> "abc", int |-> Absent, float |-> Absent],
     [s |-> "0",   int |-> <<0>>,   float |-> <<0>>],
     [s |-> "3",   int |-> <<3>>,   float |-> <<3>>],
     [s |-> "101", int |-> <<101>>, float |-> <<101>>]}

\* texts typed where an amount or a price is asked: no wizard bounds these
\* from above
FloatTexts == {t \in NumberTexts : t.s # "101"}

\* the update's user id, the key of every per-user dict
user_id_shared(u) == "u1"

user_id(u) == u

\* the update a handler has just processed: done says whether the handler
\* acted on it, handed holds the parameters it gave to the executor, calls
\* the exchange calls made while it was handled
Handled(u, kind, done, handed) ==
    [user |-> u, kind |-> kind, done |-> done, handed |-> handed,
     calls |-> <<>>]

\* an exchange call of a run and whether it succeeded
XCall(op, ok) == [op |-> op, ok |-> ok]

\* what a run reports and the exchange calls it made, up to and including
\* its entry order (the ladder calls that follow do not change a report
\* of main.py or bot.py)
RunFailed(xcalls) == [outcome |-> "failed", calls |-> xcalls]
RunSucceeded(xcalls) == [outcome |-> "success", calls |-> xcalls]

\* main.py execute_rollover_strategy on the user's stored data: ticker,
\* set_leverage, then set_leverage and the order of the entry
main_run_results(d) ==
    {RunFailed(<<XCall("tickers", FALSE)>>),
     RunFailed(<<XCall("tickers", TRUE), XCall("leverage", FALSE)>>),
     RunFailed(<<XCall("tickers", TRUE), XCall("leverage", TRUE),
                 XCall("leverage", FALSE)>>),
     RunFailed(<<XCall("tickers", TRUE), XCall("leverage", TRUE),
                 XCall("leverage", TRUE), XCall("orders", FALSE)>>),
     RunSucceeded(<<XCall("tickers", TRUE), XCall("leverage", TRUE),
                    XCall("leverage", TRUE), XCall("orders", TRUE)>>)}

\* bot.py start_rolling_strategy lines 157-161: params[...] raises KeyError
\* when the state lacks one of the five keys
\* the same with every key read with a default
bot_params_missing_never(d) == FALSE

bot_params_missing(d) ==
    \/ d.symbol = Absent \/ d.leverage = Absent \/ d.margin = Absent
    \/ d.roll_count = Absent \/ d.order_type = Absent

\* bot.py start_rolling_strategy on the user's state: the keys are read,
\* then the ticker is asked, then a limit entry without a price raises, then
\* the entry order is sent
bot_run_results(d) ==
    IF bot_params_missing(d) THEN {RunFailed(<<>>)}
    ELSE {RunFailed(<<XCall("tickers", FALSE)>>)}
         \cup (IF d.order_type # <<"market">> /\ d.entry_price = Absent
               THEN {RunFailed(<<XCall("tickers", TRUE)>>)}
               ELSE {RunFailed(<<XCall("tickers", TRUE),
                                 XCall("orders", FALSE)>>),
                     RunSucceeded(<<XCall("tickers", TRUE),
                                    XCall("orders", TRUE)>>)})

\* gateio_client.py execute_strategy on the session: ticker, set_leverage,
\* the contract's multiplier, the entry order, then the conditional orders,
\* the first failure of which fails the run
gateio_run_results(d) ==
    {RunFailed(<<XCall("tickers", FALSE)>>),
     RunFailed(<<XCall("tickers", TRUE), XCall("leverage", FALSE)>>),
     RunFailed(<<XCall("tickers", TRUE), XCall("leverage", TRUE),
                 XCall("contract", FALSE)>>),
     RunFailed(<<XCall("tickers", TRUE), XCall("leverage", TRUE),
                 XCall("contract", TRUE), XCall("orders", FALSE)>>),
     RunFailed(<<XCall("tickers", TRUE), XCall("leverage", TRUE),
                 XCall("contract", TRUE), XCall("orders", TRUE),
                 XCall("price_orders", FALSE)>>),
     RunSucceeded(<<XCall("tickers", TRUE), XCall("leverage", TRUE),
                    XCall("contract", TRUE), XCall("orders", TRUE),
                    XCall("price_orders", TRUE)>>)}

\* the wizards run with the executor's variables idle
InitWizard ==
    /\ impl \in Impls
    /\ params = [order_type |-> "market", entry_price |-> 0, margin |-> 100,
                 leverage |-> 10, roll_count |-> 1, pct |-> 0]
    /\ pc = "front"
    /\ ticker = 0
    /\ entry_used = 0
    /\ quanto = <<1, 1>>
    /\ size = -1
    /\ orders = <<>>
    /\ idx = 1
    /\ calls = <<>>
    /\ report = <<>>
    /\ result = NoResult
    /\ http = NoRequest
    /\ ui = IdleUi
    /\ xch = IdleXch

\* a wizard step changes the front end only
FrontOnly ==
    UNCHANGED <<impl, params, pc, ticker, entry_used, quanto, size, orders, idx,
                calls, report, result, http, xch>>

\* --------------------------------------------------- main.py conversation
\* /start, the conversation's only entry point: a fresh user_data[user_id]
start(u) ==
    /\ impl = "main" /\ pc = "front"
    /\ ui.step[user_id(u)] = "none"
    /\ ui' = [ui EXCEPT !.step[user_id(u)] = "SELECTING_SYMBOL",
                        !.data[user_id(u)] = EmptyData,
                        !.runs[user_id(u)] = 0,
                        !.event = Handled(u, "start", TRUE, Absent)]
    /\ FrontOnly

\* symbol_received: any text is taken as the symbol
symbol_received(u) ==
    /\ impl = "main" /\ pc = "front"
    /\ ui.step[user_id(u)] = "SELECTING_SYMBOL"
    /\ ui' = [ui EXCEPT !.step[user_id(u)] = "SELECTING_LEVERAGE",
                        !.data[user_id(u)].symbol = <<"BTC_USDT">>,
                        !.event = Handled(u, "text", TRUE, Absent)]
    /\ FrontOnly

\* a numeric step of the conversation: the value is stored and the
\* conversation moves on when it parses and is in range, else the same
\* question is asked again
\* the same with a parsed value stored before its range is checked
main_number_received_stored_first(u, now, field, value, valid, next) ==
    /\ impl = "main" /\ pc = "front"
    /\ ui.step[user_id(u)] = now
    /\ IF value # Absent /\ valid
       THEN ui' = [ui EXCEPT !.step[user_id(u)] = next,
                             !.data[user_id(u)][field] = value,
                             !.event = Handled(u, "text", TRUE, Absent)]
       ELSE ui' = [ui EXCEPT !.data[user_id(u)][field] = value,
                             !.event = Handled(u, "text", FALSE, Absent)]
    /\ FrontOnly

main_number_received(u, now, field, value, valid, next) ==
    /\ impl = "main" /\ pc = "front"
    /\ ui.step[user_id(u)] = now
    /\ IF value # Absent /\ valid
       THEN ui' = [ui EXCEPT !.step[user_id(u)] = next,
                             !.data[user_id(u)][field] = value,
                             !.event = Handled(u, "text", TRUE, Absent)]
       ELSE ui' = [ui EXCEPT !.event = Handled(u, "text", FALSE, Absent)]
    /\ FrontOnly

\* leverage_received: int(), 1..100
leverage_received(u) ==
    \E text \in NumberTexts :
        main_number_received(u, "SELECTING_LEVERAGE", "leverage", text.int,
            text.int # Absent /\ ~(text.int[1] <= 0 \/ text.int[1] > 100),
            "SELECTING_MARGIN")

\* margin_received: float(), > 0
margin_received(u) ==
    \E text \in FloatTexts :
        main_number_received(u, "SELECTING_MARGIN", "margin", text.float,
            text.float # Absent /\ ~(text.float[1] <= 0),
            "SELECTING_ENTRY_PRICE")

\* entry_price_received: float(), > 0; asked in every conversation
entry_price_received(u) ==
    \E text \in FloatTexts :
        main_number_received(u, "SELECTING_ENTRY_PRICE", "entry_price",
            text.float, text.float # Absent /\ ~(text.float[1] <= 0),
            "SELECTING_ROLL_COUNT")

\* roll_count_received: int(), 1..10
roll_count_received(u) ==
    \E text \in NumberTexts :
        main_number_received(u, "SELECTING_ROLL_COUNT", "roll_count", text.int,
            text.int # Absent /\ ~(text.int[1] <= 0 \/ text.int[1] > 10),
            "SELECTING_ORDER_TYPE")

\* the reply keyboard's two choices and any other text
OrderTypeTexts == {"market", "limit", "abc"}

\* order_type_received as a conversation step: the choice is stored and the
\* ladder is computed from the stored entry price (typed in USDT)
conv_order_type_received(u) ==
    /\ impl = "main" /\ pc = "front"
    /\ ui.step[user_id(u)] = "SELECTING_ORDER_TYPE"
    /\ \E text \in OrderTypeTexts :
          LET d == ui.data[user_id(u)] IN
          IF text \notin OrderTypes
          THEN ui' = [ui EXCEPT !.event = Handled(u, "text", FALSE, Absent)]
          ELSE ui' = [ui EXCEPT
                  !.step[user_id(u)] = "CONFIRMATION",
                  !.data[user_id(u)].order_type = <<text>>,
                  !.data[user_id(u)].orders =
                      <<calculate_rollover_orders(d.entry_price[1] * 100,
                            d.margin[1], d.leverage[1], d.roll_count[1])>>,
                  !.event = Handled(u, "text", TRUE, Absent)]
    /\ FrontOnly

\* the conversation's state once confirmation_received has run the executor
conversation_after_run_open == "CONFIRMATION"

conversation_after_run == "none"

\* confirmation_received as a conversation step: yes runs the executor on
\* user_data[user_id] and ends the conversation, anything else ends it
conv_confirmation_received(u) ==
    /\ impl = "main" /\ pc = "front"
    /\ ui.step[user_id(u)] = "CONFIRMATION"
    /\ \E yes \in BOOLEAN :
          IF yes
          THEN \E r \in main_run_results(ui.data[user_id(u)]) :
                  ui' = [ui EXCEPT
                      !.step[user_id(u)] = conversation_after_run,
                      !.runs[user_id(u)] = @ + 1,
                      !.outcome[user_id(u)] = r.outcome,
                      !.event = [Handled(u, "confirm", TRUE,
                                         <<ui.data[user_id(u)]>>)
                                    EXCEPT !.calls = r.calls]]
          ELSE ui' = [ui EXCEPT !.step[user_id(u)] = "none",
                                !.event = Handled(u, "decline", TRUE, Absent)]
    /\ FrontOnly

\* /cancel, the conversation's fallback
cancel(u) ==
    /\ impl = "main" /\ pc = "front"
    /\ ui.step[user_id(u)] # "none"
    /\ ui' = [ui EXCEPT !.step[user_id(u)] = "none",
                        !.event = Handled(u, "cancel", TRUE, Absent)]
    /\ FrontOnly

\* a text, such as a confirmation delivered again, that arrives when the
\* user has no conversation: no handler matches it
conversation_ended_update(u) ==
    /\ impl = "main" /\ pc = "front"
    /\ ui.step[user_id(u)] = "none"
    /\ ui' = [ui EXCEPT !.event = Handled(u, "confirm", FALSE, Absent)]
    /\ FrontOnly

\* ------------------------------------------------------ bot.py TelegramBot
\* do the stored settings hold what show_confirmation formats
Complete(d) ==
    /\ d.symbol # Absent /\ d.leverage # Absent /\ d.margin # Absent
    /\ d.roll_count # Absent /\ d.order_type # Absent
    /\ (d.order_type = <<"limit">> => d.entry_price # Absent)

\* roll_command: refused while the user has an entry in active_strategies,
\* else a fresh user_states[user_id]
roll_command(u) ==
    /\ impl = "bot" /\ pc = "front"
    /\ IF ui.active[user_id(u)]
       THEN ui' = [ui EXCEPT !.event = Handled(u, "start", FALSE, Absent)]
       ELSE ui' = [ui EXCEPT !.step[user_id(u)] = "symbol",
                             !.data[user_id(u)] = EmptyData,
                             !.runs[user_id(u)] = 0,
                             !.event = Handled(u, "start", TRUE, Absent)]
    /\ FrontOnly

\* handle_message without a user_states entry, or at a step that has no
\* branch: the text changes nothing
handle_message_ignored(u) ==
    /\ impl = "bot" /\ pc = "front"
    /\ ui.step[user_id(u)] \in {"none", "order_type"}
    /\ ui' = [ui EXCEPT !.event = Handled(u, "text", FALSE, Absent)]
    /\ FrontOnly

\* handle_message, step symbol: the text must contain _USDT
handle_message_symbol(u) ==
    /\ impl = "bot" /\ pc = "front"
    /\ ui.step[user_id(u)] = "symbol"
    /\ \E text \in {"BTC_USDT", "abc"} :
          IF text = "BTC_USDT"
          THEN ui' = [ui EXCEPT !.step[user_id(u)] = "leverage",
                                !.data[user_id(u)].symbol = <<text>>,
                                !.event = Handled(u, "text", TRUE, Absent)]
          ELSE ui' = [ui EXCEPT !.event = Handled(u, "text", FALSE, Absent)]
    /\ FrontOnly

\* a numeric step of handle_message
bot_number_received(u, now, field, value, valid, next) ==
    /\ impl = "bot" /\ pc = "front"
    /\ ui.step[user_id(u)] = now
    /\ IF value # Absent /\ valid
       THEN ui' = [ui EXCEPT !.step[user_id(u)] = next,
                             !.data[user_id(u)][field] = value,
                             !.event = Handled(u, "text", TRUE, Absent)]
       ELSE ui' = [ui EXCEPT !.event = Handled(u, "text", FALSE, Absent)]
    /\ FrontOnly

\* handle_message, step leverage: int(), 1 <= leverage <= 100
handle_message_leverage(u) ==
    \E text \in NumberTexts :
        bot_number_received(u, "leverage", "leverage", text.int,
            text.int # Absent /\ (1 <= text.int[1] /\ text.int[1] <= 100),
            "cost")

\* handle_message, step cost: float(), > 0
handle_message_cost(u) ==
    \E text \in FloatTexts :
        bot_number_received(u, "cost", "margin", text.float,
            text.float # Absent /\ ~(text.float[1] <= 0), "rolling_count")

\* handle_message, step rolling_count: int(), > 0; the keyboard with the
\* two order types is sent
handle_message_rolling_count(u) ==
    /\ impl = "bot" /\ pc = "front"
    /\ ui.step[user_id(u)] = "rolling_count"
    /\ \E text \in NumberTexts :
          IF text.int # Absent /\ ~(text.int[1] <= 0)
          THEN ui' = [ui EXCEPT !.step[user_id(u)] = "order_type",
                                !.data[user_id(u)].roll_count = text.int,
                                !.buttons[user_id(u)].order = TRUE,
                                !.event = Handled(u, "text", TRUE, Absent)]
          ELSE ui' = [ui EXCEPT !.event = Handled(u, "text", FALSE, Absent)]
    /\ FrontOnly

\* handle_message, step entry_price: float(), > 0; the price is stored, the
\* step stays, and show_confirmation sends its keyboard unless a setting it
\* formats is missing (KeyError, caught by the handler)
handle_message_entry_price(u) ==
    /\ impl = "bot" /\ pc = "front"
    /\ ui.step[user_id(u)] = "entry_price"
    /\ \E text \in FloatTexts :
          IF text.float # Absent /\ ~(text.float[1] <= 0)
          THEN LET d == [ui.data[user_id(u)] EXCEPT !.entry_price = text.float]
               IN  ui' = [ui EXCEPT
                       !.data[user_id(u)] = d,
                       !.buttons[user_id(u)].confirm = @ \/ Complete(d),
                       !.event = Handled(u, "text", TRUE, Absent)]
          ELSE ui' = [ui EXCEPT !.event = Handled(u, "text", FALSE, Absent)]
    /\ FrontOnly

\* handle_callback for a user without a user_states entry: session expired
handle_callback_expired(u) ==
    /\ impl = "bot" /\ pc = "front"
    /\ ui.step[user_id(u)] = "none"
    /\ \E press \in {"order", "confirm"} :
          /\ ui.buttons[user_id(u)][press]
          /\ ui' = [ui EXCEPT !.event = Handled(u, press, FALSE, Absent)]
    /\ FrontOnly

\* handle_callback, data market or limit, at whatever step the user is:
\* market shows the confirmation (unless a setting is missing: KeyError),
\* limit moves to step entry_price
handle_callback_order_type(u) ==
    /\ impl = "bot" /\ pc = "front"
    /\ ui.step[user_id(u)] # "none"
    /\ ui.buttons[user_id(u)].order
    /\ \E data \in OrderTypes :
          LET d == [ui.data[user_id(u)] EXCEPT !.order_type = <<data>>]
          IN  IF data = "market"
              THEN ui' = [ui EXCEPT
                      !.data[user_id(u)] = d,
                      !.buttons[user_id(u)].confirm = @ \/ Complete(d),
                      !.event = Handled(u, "order", TRUE, Absent)]
              ELSE ui' = [ui EXCEPT
                      !.data[user_id(u)] = d,
                      !.step[user_id(u)] = "entry_price",
                      !.event = Handled(u, "order", TRUE, Absent)]
    /\ FrontOnly

\* user_states once handle_callback has run the strategy for a user: the
\* user's entry is deleted
state_after_confirm_kept(step) == step

state_after_confirm(step) == "none"

\* start_rolling_strategy line 230: is the user in active_strategies after
\* a run; only a run that reaches the end of the try stores its strategy
\* the same with the strategy stored before the entry order
active_after_run_any(active, outcome) == TRUE

active_after_run(active, outcome) == active \/ outcome = "success"

\* handle_callback, data confirm, at whatever step the user is:
\* start_rolling_strategy runs on user_states[user_id], a success is kept in
\* active_strategies[user_id], and the user's state is deleted
handle_callback_run(u) ==
    /\ impl = "bot" /\ pc = "front"
    /\ ui.step[user_id(u)] # "none"
    /\ ui.buttons[user_id(u)].confirm
    /\ \E r \in bot_run_results(ui.data[user_id(u)]) :
          ui' = [ui EXCEPT
              !.step[user_id(u)] = state_after_confirm(@),
              !.data[user_id(u)] =
                  IF state_after_confirm(ui.step[user_id(u)]) = "none"
                  THEN EmptyData ELSE @,
              !.runs[user_id(u)] = @ + 1,
              !.outcome[user_id(u)] = r.outcome,
              !.active[user_id(u)] = active_after_run(@, r.outcome),
              !.event = [Handled(u, "confirm", TRUE, <<ui.data[user_id(u)]>>)
                            EXCEPT !.calls = r.calls]]
    /\ FrontOnly

\* handle_callback, data cancel: the user's state is deleted
handle_callback_cancel(u) ==
    /\ impl = "bot" /\ pc = "front"
    /\ ui.step[user_id(u)] # "none"
    /\ ui.buttons[user_id(u)].confirm
    /\ ui' = [ui EXCEPT !.step[user_id(u)] = "none",
                        !.data[user_id(u)] = EmptyData,
                        !.event = Handled(u, "cancel", TRUE, Absent)]
    /\ FrontOnly

\* ------------------------------------------------ telegram_bot.py TradingBot
\* the one chat id the bot serves
TELEGRAM_CHAT_ID == "u1"

\* the check new_trade and handle_message start with:
\* str(user_id) != TELEGRAM_CHAT_ID
\* the same with the check left out
not_authorised_never(u) == FALSE

not_authorised(u) == user_id(u) # TELEGRAM_CHAT_ID

\* new_trade: a fresh user_sessions[user_id] for the authorised user
new_trade(u) ==
    /\ impl = "gateio" /\ pc = "front"
    /\ IF not_authorised(u)
       THEN ui' = [ui EXCEPT !.event = Handled(u, "start", FALSE, Absent)]
       ELSE ui' = [ui EXCEPT !.step[user_id(u)] = "symbol",
                             !.data[user_id(u)] = EmptyData,
                             !.runs[user_id(u)] = 0,
                             !.event = Handled(u, "start", TRUE, Absent)]
    /\ FrontOnly

\* handle_message of a user who is not authorised or has no session
session_message_ignored(u) ==
    /\ impl = "gateio" /\ pc = "front"
    /\ not_authorised(u) \/ ui.step[user_id(u)] = "none"
    /\ ui' = [ui EXCEPT !.event = Handled(u, "text", FALSE, Absent)]
    /\ FrontOnly

\* handle_message, step symbol: any text is taken
session_symbol(u) ==
    /\ impl = "gateio" /\ pc = "front"
    /\ ~not_authorised(u)
    /\ ui.step[user_id(u)] = "symbol"
    /\ ui' = [ui EXCEPT !.step[user_id(u)] = "entry_type",
                        !.data[user_id(u)].symbol = <<"BTCUSDT">>,
                        !.event = Handled(u, "text", TRUE, Absent)]
    /\ FrontOnly

\* handle_message, step entry_type: 1 is market, 2 is limit
session_entry_type(u) ==
    /\ impl = "gateio" /\ pc = "front"
    /\ ~not_authorised(u)
    /\ ui.step[user_id(u)] = "entry_type"
    /\ \E text \in {"1", "2", "abc"} :
          IF text = "1"
          THEN ui' = [ui EXCEPT !.step[user_id(u)] = "leverage",
                                !.data[user_id(u)].order_type = <<"market">>,
                                !.event = Handled(u, "text", TRUE, Absent)]
          ELSE IF text = "2"
          THEN ui' = [ui EXCEPT !.step[user_id(u)] = "entry_price",
                                !.data[user_id(u)].order_type = <<"limit">>,
                                !.event = Handled(u, "text", TRUE, Absent)]
          ELSE ui' = [ui EXCEPT !.event = Handled(u, "text", FALSE, Absent)]
    /\ FrontOnly

\* a numeric step of handle_message: whatever parses is stored
session_number_received(u, now, field, value, next) ==
    /\ impl = "gateio" /\ pc = "front"
    /\ ~not_authorised(u)
    /\ ui.step[user_id(u)] = now
    /\ IF value # Absent
       THEN ui' = [ui EXCEPT !.step[user_id(u)] = next,
                             !.data[user_id(u)][field] = value,
                             !.event = Handled(u, "text", TRUE, Absent)]
       ELSE ui' = [ui EXCEPT !.event = Handled(u, "text", FALSE, Absent)]
    /\ FrontOnly

\* handle_message, step entry_price: float()
session_entry_price(u) ==
    \E text \in FloatTexts :
        session_number_received(u, "entry_price", "entry_price", text.float,
                                "leverage")

\* handle_message, step leverage: int()
session_leverage(u) ==
    \E text \in NumberTexts :
        session_number_received(u, "leverage", "leverage", text.int, "margin")

\* handle_message, step margin: float()
session_margin(u) ==
    \E text \in FloatTexts :
        session_number_received(u, "margin", "margin", text.float,
                                "rollover_times")

\* handle_message, step rollover_times: int()
session_rollover_times(u) ==
    \E text \in NumberTexts :
        session_number_received(u, "rollover_times", "roll_count", text.int,
                                "percentage_increase")

\* handle_message, step percentage_increase: float(); execute_strategy runs
\* at once on the session, its result is reported, the session is deleted
session_percentage_increase(u) ==
    /\ impl = "gateio" /\ pc = "front"
    /\ ~not_authorised(u)
    /\ ui.step[user_id(u)] = "percentage_increase"
    /\ \E text \in FloatTexts :
          IF text.float # Absent
          THEN LET d == [ui.data[user_id(u)] EXCEPT !.pct = text.float]
               IN  \E r \in gateio_run_results(d) :
                      ui' = [ui EXCEPT
                          !.step[user_id(u)] = "none",
                          !.data[user_id(u)] = EmptyData,
                          !.runs[user_id(u)] = @ + 1,
                          !.outcome[user_id(u)] = r.outcome,
                          !.event = [Handled(u, "confirm", TRUE, <<d>>)
                                        EXCEPT !.calls = r.calls]]
          ELSE ui' = [ui EXCEPT !.event = Handled(u, "text", FALSE, Absent)]
    /\ FrontOnly

NextWizard ==
    \E u \in Users :
        \/ start(u)
        \/ symbol_received(u)
        \/ leverage_received(u)
        \/ margin_received(u)
        \/ entry_price_received(u)
        \/ roll_count_received(u)
        \/ conv_order_type_received(u)
        \/ conv_confirmation_received(u)
        \/ cancel(u)
        \/ conversation_ended_update(u)
        \/ roll_command(u)
        \/ handle_message_ignored(u)
        \/ handle_message_symbol(u)
        \/ handle_message_leverage(u)
        \/ handle_message_cost(u)
        \/ handle_message_rolling_count(u)
        \/ handle_message_entry_price(u)
        \/ handle_callback_expired(u)
        \/ handle_callback_order_type(u)
        \/ handle_callback_run(u)
        \/ handle_callback_cancel(u)
        \/ new_trade(u)
        \/ session_message_ignored(u)
        \/ session_symbol(u)
        \/ session_entry_type(u)
        \/ session_entry_price(u)
        \/ session_leverage(u)
        \/ session_margin(u)
        \/ session_rollover_times(u)
        \/ session_percentage_increase(u)

SpecWizard == InitWizard /\ [][NextWizard]_vars

\* ================================================= runs sharing the account
\* every run of main.py goes through the one RolloverBot and the one exchange
\* account; a run can be suspended only where it awaits (the reply_text
\* calls of execute_rollover_strategy), so each step below is one stretch of
\* code between two awaits
\* leverages and ladder lengths of the runs
RunLeverages == {3, 5}
RunLevels == 1..2

\* two confirmed conversations on the same contract, about to run
InitRuns ==
    /\ impl = "main"
    /\ params = NoParams
    /\ pc = "runs"
    /\ ticker = 0
    /\ entry_used = 0
    /\ quanto = <<1, 1>>
    /\ size = -1
    /\ orders = <<>>
    /\ idx = 1
    /\ calls = <<>>
    /\ report = <<>>
    /\ result = NoResult
    /\ http = NoRequest
    /\ ui = IdleUi
    /\ \E lev \in [Users -> RunLeverages], n \in [Users -> RunLevels] :
          xch = [IdleXch EXCEPT
                    !.run = [u \in Users |->
                                [pc |-> "ticker", leverage |-> lev[u],
                                 levels |-> n[u], idx |-> 1]]]

\* a step of a run changes the account and the runs only
RunsOnly ==
    UNCHANGED <<impl, params, pc, ticker, entry_used, quanto, size, orders, idx,
                calls, report, result, http, ui>>

\* the exchange's leverage for the contract after GateIOAPI.set_leverage
set_leverage_effect(current, leverage, levOk) ==
    IF levOk THEN leverage ELSE current

\* place_market_order / place_limit_order: is place_order reached after
\* set_leverage
\* the same with place_order outside the try
order_sent_after_leverage_always(levOk) == TRUE

order_sent_after_leverage(levOk) == levOk

\* an order request as the exchange receives it: at is the leverage the
\* exchange holds for the contract when it arrives
Received(u, kind, level, at) ==
    [user |-> u, kind |-> kind, level |-> level,
     requested |-> xch.run[u].leverage, at |-> at]

\* execute_rollover_strategy lines 451-457 for one run: the ticker call
run_get_ticker(u) ==
    /\ pc = "runs" /\ xch.run[u].pc = "ticker"
    /\ \E ok \in BOOLEAN :
          xch' = [xch EXCEPT !.run[u].pc = IF ok THEN "leverage" ELSE "end"]
    /\ RunsOnly

\* lines 459-466: the set_leverage call of the run
run_set_leverage(u) ==
    /\ pc = "runs" /\ xch.run[u].pc = "leverage"
    /\ \E levOk \in BOOLEAN :
          xch' = [xch EXCEPT
              !.leverage = set_leverage_effect(@, xch.run[u].leverage, levOk),
              !.run[u].pc = IF main_leverage_ok(levOk) THEN "entry" ELSE "end"]
    /\ RunsOnly

\* place_market_order / place_limit_order in one stretch: set_leverage, then
\* place_order if it did not raise
run_place(u, kind, level, levOk, ordOk, next) ==
    LET at == set_leverage_effect(xch.leverage, xch.run[u].leverage, levOk)
    IN  xch' = [xch EXCEPT
            !.leverage = at,
            !.received = IF order_sent_after_leverage(levOk)
                         THEN @ \cup {Received(u, kind, level, at)}
                         ELSE @,
            !.run[u].pc = next,
            !.run[u].idx = IF kind = "ladder" THEN @ + 1 ELSE @]

\* lines 477-493: the entry order of the run
run_entry(u) ==
    /\ pc = "runs" /\ xch.run[u].pc = "entry"
    /\ \E levOk, ordOk \in BOOLEAN :
          run_place(u, "entry", 0, levOk, ordOk,
                    IF main_entry_ok(main_place_success(levOk, ordOk))
                    THEN "ladder" ELSE "end")
    /\ RunsOnly

\* lines 498-523: one ladder level of the run
run_ladder(u) ==
    /\ pc = "runs" /\ xch.run[u].pc = "ladder"
    /\ \E levOk, ordOk \in BOOLEAN :
          run_place(u, "ladder", xch.run[u].idx, levOk, ordOk,
                    IF xch.run[u].idx = xch.run[u].levels
                    THEN "end" ELSE "ladder")
    /\ RunsOnly

NextRuns ==
    \E u \in Users :
        \/ run_get_ticker(u)
        \/ run_set_leverage(u)
        \/ run_entry(u)
        \/ run_ladder(u)

SpecRuns == InitRuns /\ [][NextRuns]_vars

\* ================================================================= claims
CallIdx == 1..Len(calls)
Levels == 1..params.roll_count

\* the entry order was accepted by the exchange
EntryAccepted ==
    \E k \in CallIdx :
        calls[k].op = "orders" /\ calls[k].kind = "entry" /\ calls[k].ok

\* the placement of the entry order failed: its order call, or (main.py) the
\* set_leverage call that place_market_order / place_limit_order makes first
EntryPlacementFailed ==
    \E k \in CallIdx :
        /\ calls[k].kind = "entry"
        /\ calls[k].op \in {"orders", "leverage"}
        /\ ~calls[k].ok

\* the placement of ladder level i was attempted / succeeded
LevelAttempted(i) ==
    \E k \in CallIdx : calls[k].kind = "ladder" /\ calls[k].level = i
LevelSucceeded(i) ==
    \E k \in CallIdx :
        /\ calls[k].op = "orders" /\ calls[k].kind = "ladder"
        /\ calls[k].level = i /\ calls[k].ok

\* the mark an implementation gives a level it placed
PlacedMark == {"success", "pending", "created"}

\* C1: once the entry order has been accepted, a failing ladder level never
\* stops the run: at the end every level 1..n has been attempted, the run
\* reports success, and its ladder has one entry per level, marked placed
\* exactly when that level's call succeeded and failed otherwise.
C1_LadderFailureNeverStops ==
    (pc = "end" /\ EntryAccepted) =>
        /\ \A i \in Levels : LevelAttempted(i)
        /\ result.status = "success"
        /\ Len(result.ladder) = params.roll_count
        /\ \A i \in Levels :
              /\ result.ladder[i].number = i
              /\ IF LevelSucceeded(i)
                 THEN result.ladder[i].status \in PlacedMark
                 ELSE result.ladder[i].status = "failed"

\* C2: when the placement of the entry order fails, the run is over and
\* reports failure, no ladder placement call is ever made, and the reported
\* ladder is empty.
C2_EntryFailureAborts ==
    EntryPlacementFailed =>
        /\ pc = "end"
        /\ result.status = "failed"
        /\ result.ladder = <<>>
        /\ report = <<>>
        /\ \A k \in CallIdx : calls[k].kind # "ladder"

C2_Witness ==
    /\ pc = "end" /\ EntryPlacementFailed
    /\ \E k \in CallIdx :
          calls[k].op = "orders" /\ calls[k].kind = "entry" /\ ~calls[k].ok

\* the executor's set-leverage step failed
LeverageStepFailed ==
    \E k \in CallIdx :
        calls[k].op = "leverage" /\ calls[k].kind = "setup" /\ ~calls[k].ok

\* C3: when the executor's set-leverage step fails, the run is over, reports
\* failure, and no order-placement call (entry or ladder) is made in the run.
C3_LeverageFailureAborts ==
    LeverageStepFailed =>
        /\ pc = "end"
        /\ result.status = "failed"
        /\ \A k \in CallIdx : calls[k].op # "orders"

C3_Witness == pc = "end" /\ LeverageStepFailed /\ Len(calls) >= 2

\* C4: a run reported to its caller as failed has executed nothing: no order
\* of the run was accepted by the exchange.
C4_FailedMeansNothingExecuted ==
    result.status = "failed" =>
        \A k \in CallIdx : ~(calls[k].op = "orders" /\ calls[k].ok)

\* the ticker call was made and gave no price (an error or an empty array)
TickerUnavailable ==
    /\ Len(calls) >= 1
    /\ calls[1].op = "tickers"
    /\ ticker = 0

\* C5: for a Market entry, when the ticker call fails or returns an empty
\* array, the run is over with a price failure and the ticker call is the
\* only exchange call of the run (no set-leverage, no order placement).
C5_PriceFailureAborts ==
    (params.order_type = "market" /\ TickerUnavailable) =>
        /\ pc = "end"
        /\ result = Failed("price")
        /\ Len(calls) = 1

\* the empty-array case on a Market entry
C5_Witness ==
    /\ params.order_type = "market" /\ TickerUnavailable
    /\ calls[1].ok /\ pc = "end"

\* C6: the price the position is sized from is the ticker price for a Market
\* entry and the supplied entry price for a Limit entry.
C6_EffectiveEntryPrice ==
    size > 0 =>
        entry_used = (IF params.order_type = "market" THEN ticker
                      ELSE params.entry_price)

\* C7: every order request (entry or ladder) carries a size >= 1.
C7_OrderSizePositive ==
    \A k \in CallIdx : calls[k].op = "orders" => calls[k].size >= 1

\* C8: the contract size computed by main.py's calculate_contract_size and
\* by gateio_client.py's calculate_position_size is
\* max(1, floor(margin * leverage / price)), hence at least 1 (stated for
\* contracts of multiplier 1, where gateio_client.py's extra division by the
\* multiplier changes nothing).
C8_ContractSizeFloor ==
    (impl \in {"main", "gateio"} /\ size # -1 /\ quanto = <<1, 1>>) =>
        size = Max(1, (params.margin * params.leverage * 100) \div entry_used)

\* the price level 1 of the ladder is computed from
LadderBase == IF impl = "main" THEN params.entry_price ELSE entry_used

\* C9: in every ladder each level's trigger price is strictly greater than
\* the previous level's, and level 1's is strictly greater than the entry
\* price.
C9_LadderStrictlyIncreasing ==
    orders # <<>> =>
        /\ PxLess(Px(LadderBase, 0), orders[1].price)
        /\ \A i \in 2..Len(orders) : PxLess(orders[i - 1].price, orders[i].price)

\* C10: truncation chains in main.py: level i+1's trigger price is the
\* 2-decimal truncation of level i's emitted trigger price times 1.02.
C10_TruncationChains ==
    (impl = "main" /\ orders # <<>>) =>
        \A i \in 1..(Len(orders) - 1) :
            orders[i + 1].price =
                Px(Trunc2(MulPct(Cents(orders[i].price.c), MainStepPct)), 0)

\* the percentage step the ladder of the running implementation is built with
LadderPct ==
    IF impl = "main" THEN MainStepPct
    ELSE IF impl = "bot" THEN BotIntervalPercent
    ELSE params.pct

\* base * (1 + p/100)^i, exactly
RECURSIVE ExactLevel(_, _, _)
ExactLevel(base, p, i) ==
    IF i = 0 THEN Cents(base) ELSE MulPct(ExactLevel(base, p, i - 1), p)

\* C11: every emitted trigger price carries 2 decimals and is a truncation:
\* it is never greater than the exact product entry * (1 + p/100)^i.
C11_TruncatedNotRounded ==
    orders # <<>> =>
        \A i \in 1..Len(orders) :
            /\ orders[i].price.m = 0
            /\ orders[i].price.c <= ExactLevel(LadderBase, LadderPct, i).w

\* level i's emitted price is base * (1 + p/100)^i to within a cent
WithinACent(price, base, p, i) ==
    LET e == ExactLevel(base, p, i)
    IN  e.w <= price.c /\ price.c <= e.w + 1

LadderOrderCalls ==
    {k \in CallIdx : calls[k].op = "orders" /\ calls[k].kind = "ladder"}

\* C13: within one ladder the contract size is the same for every level,
\* in the computed ladder and in the order calls sent for it.
C13_ConstantSize ==
    /\ \A i, j \in 1..Len(orders) :
           orders[i].contract_size = orders[j].contract_size
    /\ \A k, l \in LadderOrderCalls : calls[k].size = calls[l].size

C13_Witness ==
    /\ impl = "bot"
    /\ Len(orders) >= 2
    /\ PxLess(orders[1].price, orders[2].price)
    /\ \E k, l \in LadderOrderCalls :
           calls[k].level = 1 /\ calls[l].level = 2 /\ calls[k].size > 1

\* the entry order calls sent so far
EntryOrderCalls ==
    {k \in CallIdx : calls[k].op = "orders" /\ calls[k].kind = "entry"}

IsFloorOf(s, n, price) ==
    IF price.c > n THEN s = 0
    ELSE /\ s * (price.c * 10000 + price.m) <= n * 10000
         /\ n * 10000 < (s + 1) * (price.c * 10000 + price.m)

LadderComputed ==
    \/ pc = "ladder"
    \/ impl = "main" /\ pc # "wizard"

\* C15: a computed ladder has exactly roll_count levels, numbered 1..n in
\* order, with trigger prices that never descend.
C15_LadderShape ==
    LadderComputed =>
        /\ Len(orders) = params.roll_count
        /\ \A i \in 1..Len(orders) : orders[i].rollover_number = i
        /\ \A i \in 2..Len(orders) :
               ~PxLess(orders[i].price, orders[i - 1].price)

C15_Witness ==
    /\ impl = "main" /\ pc = "confirmation"
    /\ Len(orders) >= 3
    /\ orders[1].price = orders[2].price
    /\ orders[3].rollover_number = 3

\* the id the exchange returned for the accepted order call of level i
\* (the model numbers the exchange's orders by their position in the log)
ReturnedOrderId(i) ==
    CHOOSE k \in CallIdx :
        /\ calls[k].op = "orders" /\ calls[k].kind = "ladder"
        /\ calls[k].level = i /\ calls[k].ok

\* C16: when the run got past the entry order, the outcome it reports has
\* exactly one entry per ladder level, in level order; a level is reported
\* placed, with the order id the exchange returned, exactly when its
\* placement succeeded, and failed otherwise.
C16_OutcomePerLevel ==
    (pc = "end" /\ EntryAccepted) =>
        /\ Len(report) = params.roll_count
        /\ \A i \in 1..Len(report) :
               /\ report[i].number = i
               /\ report[i].status \in PlacedMark \cup {"failed"}
               /\ report[i].status \in PlacedMark <=> LevelSucceeded(i)
               /\ LevelSucceeded(i) => report[i].order_id = ReturnedOrderId(i)

\* C17: the ladder is placed strictly in ascending level order, one level
\* after the other: a call for a level is sent only after the entry order
\* call has succeeded and after the calls of every lower level have
\* resolved, and never before a call of the level just below it.
C17_LadderSequential ==
    \A k \in CallIdx :
        calls[k].kind = "ladder" =>
            /\ \E e \in EntryOrderCalls : e < k /\ calls[e].ok
            /\ \A j \in 1..(k - 1) :
                   calls[j].kind = "ladder" => calls[j].level <= calls[k].level
            /\ calls[k].level > 1 =>
                   \E j \in 1..(k - 1) :
                       /\ calls[j].kind = "ladder"
                       /\ calls[j].level = calls[k].level - 1
            /\ k \in LadderOrderCalls =>
                   \A j \in LadderOrderCalls :
                       j < k => calls[j].level < calls[k].level

C17_Witness ==
    /\ impl = "main"
    /\ \E j, k \in LadderOrderCalls :
           /\ j < k
           /\ calls[j].level = 1 /\ ~calls[j].ok
           /\ calls[k].level = 2 /\ calls[k].ok

\* C18: nothing is retried: the entry order is requested at most once and
\* each ladder level's order is requested at most once, whatever the
\* outcome of the request.
C18_NoRetry ==
    /\ Cardinality(EntryOrderCalls) <= 1
    /\ \A i \in Levels :
           Cardinality({k \in LadderOrderCalls : calls[k].level = i}) <= 1

C18_Witness ==
    /\ impl = "main" /\ pc = "end"
    /\ \E e \in EntryOrderCalls : calls[e].ok
    /\ \E k \in LadderOrderCalls : calls[k].level = 1 /\ ~calls[k].ok
    /\ Cardinality(LadderOrderCalls) = params.roll_count
    /\ params.roll_count >= 2

\* C19: a request returns a value only when the HTTP status is exactly 200;
\* every response with another status and every timeout comes back as an
\* error, never as a value.
C19_ValueOnlyOn200 ==
    pc = "responded" =>
        /\ http.outcome \in {"value", "error"}
        /\ http.outcome = "value" =>
               http.transport.kind = "response" /\ http.transport.status = 200
        /\ (\/ http.transport.kind = "timeout"
            \/ http.transport.kind = "response" /\ http.transport.status # 200)
               => http.outcome = "error"

C19_Witness ==
    /\ pc = "responded" /\ impl = "main"
    /\ http.method = "POST"
    /\ http.transport = [kind |-> "response", status |-> 201, json |-> TRUE]
    /\ http.outcome = "error"

\* the two encodings of an order request
MarketEncoding(c) == c.price = ZeroPrice /\ c.tif = "ioc"
LimitEncoding(c) ==
    c.price # ZeroPrice /\ c.price # NoPrice /\ c.tif = "gtc"

\* C20: every order request carries price "0" with ioc, or a non-zero price
\* with gtc; a Market entry is sent with the first and a Limit entry with
\* the second.
C20_TwoEncodings ==
    \A k \in CallIdx :
        calls[k].op = "orders" =>
            /\ MarketEncoding(calls[k]) \/ LimitEncoding(calls[k])
            /\ calls[k].kind = "entry" =>
                   IF params.order_type = "market"
                   THEN MarketEncoding(calls[k])
                   ELSE LimitEncoding(calls[k])

\* C21 (as stated): every ladder order is sent as a resting limit order:
\* gtc, priced at its level's trigger price, sized with the ladder's
\* contract size; none is sent as a market (price "0", ioc) order.
C21_LadderOrdersRest ==
    \A k \in LadderOrderCalls :
        /\ calls[k].tif = "gtc"
        /\ calls[k].price = orders[calls[k].level].price
        /\ calls[k].size = orders[calls[k].level].contract_size
        /\ ~MarketEncoding(calls[k])

\* C21 (amended): every ladder order carries the ladder's contract size; in
\* main.py and bot.py it is a resting limit order, gtc, priced at its
\* level's trigger price; in gateio_client.py it is a conditional market
\* order, price "0" with ioc, that carries the level's trigger price as its
\* stop trigger.
C21_LadderOrderEncoding ==
    \A k \in LadderOrderCalls :
        /\ calls[k].size = orders[calls[k].level].contract_size
        /\ IF impl = "gateio"
           THEN /\ MarketEncoding(calls[k])
                /\ calls[k].trigger = orders[calls[k].level].price
           ELSE /\ calls[k].tif = "gtc"
                /\ calls[k].price = orders[calls[k].level].price
                /\ calls[k].trigger = NoPrice

C21_Witness ==
    /\ impl = "gateio" /\ entry_used = 149 /\ params.pct = 2
    /\ \E k \in LadderOrderCalls :
           /\ calls[k].level = 2
           /\ calls[k].trigger = Px(155, 0)
           /\ calls[k].price = ZeroPrice

\* the HTTP calls one invocation of an exchange operation sent: the calls of
\* that operation made for the same step (setup, entry, ladder level)
CallsOfInvocation(ops, k) ==
    {j \in CallIdx : /\ calls[j].op \in ops
                     /\ calls[j].kind = calls[k].kind
                     /\ calls[j].level = calls[k].level}

\* C22: each invocation of getTicker, setLeverage and placeOrder sends
\* exactly one HTTP call.
C22_OneCallPerOperation ==
    \A k \in CallIdx :
        /\ calls[k].op = "tickers" =>
               Cardinality(CallsOfInvocation({"tickers"}, k)) = 1
        /\ calls[k].op \in {"positions", "leverage"} =>
               Cardinality(CallsOfInvocation({"positions", "leverage"}, k)) = 1
        /\ calls[k].op = "orders" =>
               Cardinality(CallsOfInvocation({"orders"}, k)) = 1

\* C23: the signature payload is the five fields method, path, query
\* string, body hash, timestamp joined by single newlines in that order; the
\* body hash is the digest of the empty byte sequence when there is no
\* body; the Timestamp header is the timestamp of the payload and KEY is
\* the API key.
C23_SignaturePayload ==
    pc = "responded" =>
        LET sg == http.signed
            p  == sg.payload
        IN  /\ Len(p) = 9
            /\ \A i \in {2, 4, 6, 8} : p[i] = "\n"
            /\ p[1] = http.method
            /\ p[3] = sg.url_path
            /\ p[5] = sg.query
            /\ p[7] = Sha512(sg.body)
            /\ http.data \in {"none", "empty"} => p[7] = Sha512(<<>>)
            /\ p[9] = sg.headers.Timestamp
            /\ p[9] \in {http.clock[1], <<http.clock[1][1]>>}
            /\ sg.headers.KEY = ApiKey
            /\ sg.headers.SIGN = HmacSha512(ApiSecret, p)

C23_Witness ==
    /\ pc = "responded" /\ impl = "main"
    /\ http.method = "GET" /\ http.data = "none"
    /\ http.params = <<<<"status", <<"open">>>>,
                       <<"contract", <<"BTC", "_", "USDT">>>>>>
    /\ http.signed.payload[7] = Sha512(<<>>)
    /\ http.signed.payload[5]
           = <<"contract", "=", "BTC", "_", "USDT", "&", "status", "=", "open">>
    /\ http.signed.headers.Timestamp = <<"1700000000", "25">>

\* the places of a query string where a key stands
KeyPlaces(q) ==
    {i \in 1..Len(q) : q[i] \in Items(KeysInOrder) /\ (i = 1 \/ q[i - 1] = "&")}

\* C24: the query string that is signed lists the parameters sorted by key,
\* each as key=value with the value percent-encoded, joined with "&",
\* whatever the order the caller supplied them in; it is empty when there
\* are no parameters.
C24_CanonicalQuery ==
    pc = "responded" =>
        LET q  == http.signed.query
            ps == http.params
        IN  /\ ps = <<>> <=> q = <<>>
            /\ Cardinality(KeyPlaces(q)) = Len(ps)
            /\ \A i, j \in KeyPlaces(q) : i < j => KeyRank(q[i]) < KeyRank(q[j])
            /\ \A n \in 1..Len(ps) :
                   \E i \in KeyPlaces(q) :
                       /\ q[i] = ps[n][1]
                       /\ q[i + 1] = "="
                       /\ SubSeq(q, i + 2, i + 1 + Len(ps[n][2]))
                              = [c \in 1..Len(ps[n][2]) |->
                                    IF ps[n][2][c] = "/" THEN "%2F"
                                    ELSE IF ps[n][2][c] = "&" THEN "%26"
                                    ELSE ps[n][2][c]]
            /\ \A i \in 1..Len(q) : q[i] # "/"

\* C30: between the placement calls of every two consecutive ladder levels
\* of a run there is a pause, whether the earlier level's call succeeded or
\* failed.
C30_PauseBetweenLevels ==
    \A j, k \in CallIdx :
        (/\ calls[j].kind = "ladder" /\ calls[k].kind = "ladder"
         /\ calls[k].level = calls[j].level + 1)
            => \E p \in j..k : calls[p].op = "sleep"


C26_NoCrossRunState ==
    /\ \A u \in Users :
          (ui.outcome[u] # "none" /\ ui.step[u] = "none")
              => (ui.data[u] = EmptyData /\ ~ui.active[u])
    /\ (ui.event.kind = "start" /\ ui.outcome[ui.event.user] # "none")
          => ui.event.done


\* the parameters the executor has just been handed, if the last update ran it
ExecutorInvoked == ui.event.handed # Absent
HandedParams == ui.event.handed[1]

\* C27: the executor is only invoked with a fully validated parameter set:
\* leverage in 1..100, roll count in 1..10, margin > 0, and for a limit
\* entry an entry price > 0
C27_ValidatedParameters ==
    ExecutorInvoked =>
        /\ HandedParams.leverage # Absent
        /\ HandedParams.leverage[1] \in 1..100
        /\ HandedParams.roll_count # Absent
        /\ HandedParams.roll_count[1] \in 1..10
        /\ HandedParams.margin # Absent
        /\ HandedParams.margin[1] > 0
        /\ HandedParams.order_type = <<"limit">>
              => (HandedParams.entry_price # Absent
                  /\ HandedParams.entry_price[1] > 0)


\* C28: every parameter set handed to the executor holds an entry price if
\* and only if its entry type is limit
C28_EntryPriceIffLimit ==
    ExecutorInvoked =>
        (HandedParams.entry_price # Absent
            <=> HandedParams.order_type = <<"limit">>)


\* everything the front end holds for one user
UserSlice(x, u) ==
    <<x.step[u], x.data[u], x.active[u], x.buttons[u], x.runs[u], x.outcome[u]>>

\* C29: users are independent: a step taken for one user leaves every other
\* user's parameters, ladder, wizard step and run outcome as they were, and
\* a run is handed the parameters collected for its own user
C29_UsersIndependent ==
    [][/\ \A u \in Users :
             u # ui'.event.user => UserSlice(ui', u) = UserSlice(ui, u)
       /\ ui'.event.handed # Absent =>
             [ui'.event.handed[1] EXCEPT !.pct = Absent]
                 = [ui.data[ui'.event.user] EXCEPT !.pct = Absent]]_vars

\* one user's run has just been reported while the other user is in the
\* middle of a wizard with parameters of their own
C29_Witness ==
    /\ ui.event.user = "u2" /\ ui.event.handed # Absent
    /\ ui.step["u1"] # "none"
    /\ ui.data["u1"].leverage # Absent
    /\ ui.data["u1"] # ui.event.handed[1]


\* C31: for every request with a body, the body whose hash enters the
\* signature payload is the body that is transmitted
C31_SignedBodyIsSentBody ==
    (pc = "responded" /\ http.sent = 1
        /\ (http.signed.body # <<>> \/ http.wire.body # <<>>))
        => http.wire.body = http.signed.body

\* C32: for every request, the query string that enters the signature
\* payload is the query string sent on the wire, and it is empty exactly
\* when no query is sent
C32_SignedQueryIsSentQuery ==
    (pc = "responded" /\ http.sent = 1)
        => http.wire.query = http.signed.query


\* the ladder levels of main.py whose set_leverage call failed
LadderLeverageFailures ==
    {calls[k].level : k \in {j \in CallIdx : /\ calls[j].op = "leverage"
                                             /\ calls[j].kind = "ladder"
                                             /\ ~calls[j].ok}}

\* C34: in main.py a set_leverage failure while placing ladder level k fails
\* that level only: no order request is sent for level k, level k is
\* recorded as failed, and the levels after k are still attempted
C34_LadderLeverageFailure ==
    \A i \in LadderLeverageFailures :
        /\ ~\E k \in CallIdx : /\ calls[k].op = "orders"
                               /\ calls[k].kind = "ladder"
                               /\ calls[k].level = i
        /\ Len(report) >= i /\ report[i].status = "failed"
        /\ idx > i
        /\ pc = "end" =>
              /\ result.status = "success"
              /\ \A j \in (i + 1)..Len(orders) : LevelAttempted(j)

\* level 1 failed at set_leverage and level 2 was placed afterwards
C34_Witness ==
    /\ impl = "main" /\ pc = "end"
    /\ 1 \in LadderLeverageFailures
    /\ LevelSucceeded(2)


\* C33: in main.py an order request is sent only after its run's own
\* set_leverage call succeeded, with no step of another run in between: every
\* order reaches the exchange while the leverage of its contract is the one
\* its run requested, however the runs of two users interleave
C33_OrderUnderOwnLeverage ==
    \A o \in xch.received : o.at = o.requested

\* the two runs ask for different leverages; the first has placed its entry
\* and level 1 and still has level 2 to place, and since then the second
\* has placed its entry and left its own leverage on the exchange
C33_Witness ==
    /\ xch.run["u1"].leverage # xch.run["u2"].leverage
    /\ xch.run["u1"].pc = "ladder" /\ xch.run["u1"].idx = 2
    /\ \E c \in xch.received : c.user = "u1" /\ c.kind = "ladder"
    /\ \E b \in xch.received : b.user = "u2" /\ b.kind = "entry"
    /\ xch.leverage = xch.run["u2"].leverage


\* the ladder main.py showed in the summary is the one it stored
SummaryShown == impl = "main" /\ pc \notin {"wizard", "front", "request", "runs"}

\* C35: in main.py the ladder orders sent are exactly the levels of the
\* summary the user confirmed, price and contract size, in the same order;
\* the stored ladder does not change once the summary is shown; the entry
\* order's size is the ladder's contract size
C35_LadderAsConfirmed ==
    /\ [](SummaryShown =>
            /\ \A k \in LadderOrderCalls :
                  /\ calls[k].level \in 1..Len(orders)
                  /\ calls[k].price = orders[calls[k].level].price
                  /\ calls[k].size = orders[calls[k].level].contract_size
            /\ \A k, l \in LadderOrderCalls :
                  k < l => calls[k].level < calls[l].level
            /\ \A k \in EntryOrderCalls, i \in 1..Len(orders) :
                  calls[k].size = orders[i].contract_size)
    /\ [][SummaryShown => orders' = orders]_vars

\* three different levels were confirmed and all three have been sent
C35_Witness ==
    /\ impl = "main" /\ pc = "end"
    /\ Len(orders) = 3
    /\ orders[1].price # orders[3].price
    /\ Cardinality(LadderOrderCalls) = 3
    /\ EntryOrderCalls # {}


\* C36: in bot.py a confirm callback is processed at any wizard step; when
\* the user's state lacks symbol, leverage, cost, rolling count or order
\* type, or has order type limit without an entry price, no order is placed
\* and the run reports failure
C36_IncompleteConfirmFails ==
    (impl = "bot" /\ ExecutorInvoked /\ ~Complete(HandedParams))
        => /\ ui.outcome[ui.event.user] = "failed"
           /\ \A i \in 1..Len(ui.event.calls) : ui.event.calls[i].op # "orders"

\* a confirm pressed for a limit entry whose price was never typed: the
\* ticker was asked and the run failed
C36_Witness ==
    /\ impl = "bot" /\ ExecutorInvoked
    /\ ~bot_params_missing(HandedParams)
    /\ HandedParams.order_type = <<"limit">>
    /\ HandedParams.entry_price = Absent
    /\ ui.event.calls = <<XCall("tickers", TRUE)>>
    /\ ui.outcome[ui.event.user] = "failed"


\* the entry order call of the run just handled succeeded
EntryCallSucceeded(ev) ==
    \E i \in 1..Len(ev.calls) : ev.calls[i] = XCall("orders", TRUE)

ConversationOrder ==
    <<"SELECTING_SYMBOL", "SELECTING_LEVERAGE", "SELECTING_MARGIN",
      "SELECTING_ENTRY_PRICE", "SELECTING_ROLL_COUNT", "SELECTING_ORDER_TYPE",
      "CONFIRMATION">>
FieldOrder ==
    <<"symbol", "leverage", "margin", "entry_price", "roll_count", "order_type">>
StepsDone(u) ==
    IF ui.step[u] = "none" THEN 0
    ELSE (CHOOSE i \in 1..7 : ConversationOrder[i] = ui.step[u]) - 1

\* C38: in main.py no exchange call is made before the user has completed
\* the six wizard steps in their fixed order and answered the confirmation
\* with yes; an invalid input leaves the stored parameters and the step
\* unchanged; any other confirmation answer ends the conversation with no
\* exchange call
C38_WizardBeforeExchange ==
    /\ [](impl = "main" =>
            \A u \in Users : \A i \in 1..StepsDone(u) :
                ui.data[u][FieldOrder[i]] # Absent)
    /\ [][impl = "main" =>
            LET u == ui'.event.user IN
            /\ ui'.event.calls # <<>> =>
                  /\ ui.step[u] = "CONFIRMATION"
                  /\ ui'.event.kind = "confirm"
            /\ ui'.step[u] # ui.step[u] =>
                  \/ ui'.step[u] = "none"
                  \/ ui.step[u] = "none" /\ ui'.step[u] = ConversationOrder[1]
                  \/ \E i \in 1..6 : /\ ui.step[u] = ConversationOrder[i]
                                     /\ ui'.step[u] = ConversationOrder[i + 1]
            /\ ~ui'.event.done =>
                  /\ ui'.data = ui.data
                  /\ ui'.step = ui.step
            /\ ui'.event.kind = "decline" =>
                  /\ ui'.event.calls = <<>>
                  /\ ui'.step[u] = "none"]_vars

\* after six steps and a yes, the run of a limit entry has called the
\* exchange and the conversation is over
C38_Witness ==
    /\ impl = "main"
    /\ ui.event.kind = "confirm" /\ ui.event.calls # <<>>
    /\ ui.event.handed # Absent
    /\ ui.event.handed[1].order_type = <<"limit">>
    /\ ui.step[ui.event.user] = "none"


\* C39: in telegram_bot.py a trade is executed only for the authorised
\* user: a message from any other user never invokes execute_strategy and
\* never creates or advances a session
C39_AuthorisedOnly ==
    /\ [](impl = "gateio" =>
            \A u \in Users \ {TELEGRAM_CHAT_ID} :
                /\ ui.step[u] = "none"
                /\ ui.data[u] = EmptyData
                /\ ui.runs[u] = 0
                /\ ui.outcome[u] = "none")
    /\ [][(impl = "gateio" /\ ui'.event.user # TELEGRAM_CHAT_ID) =>
            /\ ui'.event.handed = Absent
            /\ ui'.event.calls = <<>>
            /\ ~ui'.event.done
            /\ ui'.step = ui.step
            /\ ui'.data = ui.data]_vars

\* another user's /new_trade is refused while the authorised user is in
\* the middle of a session
C39_Witness ==
    /\ impl = "gateio"
    /\ ui.event.user # TELEGRAM_CHAT_ID
    /\ ui.event.kind = "start" /\ ~ui.event.done
    /\ ui.step[TELEGRAM_CHAT_ID] = "leverage"


\* the order calls sent for ladder level i
LevelOrderCalls(i) ==
    {k \in CallIdx : /\ calls[k].op = "orders" /\ calls[k].kind = "ladder"
                     /\ calls[k].level = i}

\* the exchange calls of a run (the pauses of bot.py are not calls)
ExchangeCalls == {k \in CallIdx : calls[k].op # "sleep"}

\* C40: every started run terminates: when each exchange call returns or
\* fails, a run with n ladder levels reaches its final report after a
\* bounded number of exchange calls, each level attempted at most once,
\* whatever combination of calls fails
C40_RunTerminates ==
    /\ <>(pc = "end" /\ result.status # "none")
    /\ [](/\ Cardinality(ExchangeCalls) <= 6 + 3 * params.roll_count
          /\ \A i \in 1..params.roll_count :
                Cardinality(LevelOrderCalls(i)) <= 1)

\* a run has ended after its entry, with one level failed and one placed
C40_Witness ==
    /\ pc = "end" /\ result.status = "success"
    /\ \E i, j \in 1..params.roll_count :
          /\ LevelOrderCalls(i) # {} /\ ~LevelSucceeded(i)
          /\ LevelSucceeded(j)

====
